---- MODULE Spec2Model ----
(***************************************************************************)
(* Daily behavioural-feature aggregation and ridge-regression mood-model   *)
(* pipeline: scripts/train_model.ts (training run, registry, importances,  *)
(* predictions) and the feature store (aggregateUserDay,                   *)
(* upsertDailyFeature, aggregateAllUsersForDay).                           *)
(*                                                                         *)
(* Numbers are exact rationals <<n, d>> with d > 0 and gcd(|n|, d) = 1.    *)
(* A magnitude the integer width cannot hold carries a power of 1e-12:     *)
(* <<n, d, k>> with k # 0 is n/d * (1e-12)^k.                              *)
(* NULL is the SQL/JS null of a nullable number or key.                    *)
(***************************************************************************)
EXTENDS Integers, Sequences, FiniteSets, TLC

NULL == <<>>

\* ------------------------------------------------------------------------
\* Exact arithmetic
\* ------------------------------------------------------------------------

Abs(n) == IF n < 0 THEN -n ELSE n

RECURSIVE Gcd(_, _)
Gcd(a, b) == IF b = 0 THEN a ELSE Gcd(b, a % b)

Rat(n, d) ==
  LET s == IF d < 0 THEN -1 ELSE 1
      g == Gcd(Abs(n), Abs(d))
  IN  <<(s * n) \div g, (s * d) \div g>>

R(n) == <<n, 1>>
Zero == <<0, 1>>

\* The power of 1e-12 a number carries, and the number n/d * (1e-12)^k.
Exp(x) == IF Len(x) = 3 THEN x[3] ELSE 0
Sci(q, k) == IF k = 0 \/ q[1] = 0 THEN q ELSE <<q[1], q[2], k>>

RECURSIVE Pow(_, _)
Pow(b, k) == IF k = 0 THEN 1 ELSE b * Pow(b, k - 1)

\* The sum of two numbers: of one power of 1e-12, or of two, where the
\* denominator of the one with the higher power exceeds the integer width.
RECURSIVE RAdd(_, _)
RAdd(x, y) ==
  IF Len(x) = 2 /\ Len(y) = 2 THEN Rat(x[1] * y[2] + y[1] * x[2], x[2] * y[2])
  ELSE IF x[1] = 0 THEN y
  ELSE IF y[1] = 0 THEN x
  ELSE IF Exp(x) = Exp(y) THEN Sci(RAdd(<<x[1], x[2]>>, <<y[1], y[2]>>), Exp(x))
  ELSE IF Exp(x) < Exp(y)
    THEN Sci(RAdd(<<x[1], x[2]>>,
                  <<y[1], y[2] * Pow(1000000 * 1000000, Exp(y) - Exp(x))>>), Exp(x))
  ELSE RAdd(y, x)
RNeg(x) == IF Len(x) = 2 THEN <<-x[1], x[2]>> ELSE <<-x[1], x[2], x[3]>>
RSub(x, y) == RAdd(x, RNeg(y))
RECURSIVE RMul(_, _)
RMul(x, y) ==
  IF Len(x) = 2 /\ Len(y) = 2 THEN Rat(x[1] * y[1], x[2] * y[2])
  ELSE Sci(RMul(<<x[1], x[2]>>, <<y[1], y[2]>>), Exp(x) + Exp(y))
RECURSIVE RDiv(_, _)
RDiv(x, y) ==
  IF x[1] = 0 THEN Zero
  ELSE IF Len(x) = 2 /\ Len(y) = 2 THEN Rat(x[1] * y[2], x[2] * y[1])
  ELSE Sci(RDiv(<<x[1], x[2]>>, <<y[1], y[2]>>), Exp(x) - Exp(y))
RAbs(x) == IF Len(x) = 2 THEN <<Abs(x[1]), x[2]>> ELSE <<Abs(x[1]), x[2], x[3]>>
\* Between two numbers of one sign and different powers the power decides:
\* n/d and its inverse are below 2^31 < 1e12.
RLt(x, y) ==
  IF Exp(x) = Exp(y) THEN x[1] * y[2] < y[1] * x[2]
  ELSE IF x[1] <= 0 /\ y[1] >= 0 THEN x[1] < 0 \/ y[1] > 0
  ELSE IF x[1] >= 0 /\ y[1] <= 0 THEN FALSE
  ELSE (x[1] > 0) = (Exp(x) > Exp(y))
RLe(x, y) == x = y \/ RLt(x, y)

RECURSIVE RSum(_)
RSum(s) == IF s = <<>> THEN Zero ELSE RAdd(RSum(SubSeq(s, 1, Len(s) - 1)), s[Len(s)])

\* x.toFixed(k) read back with Number(): the multiple of 1/scale nearest to x,
\* the larger one on a tie (scale = 10^k).
ToFixed(x, scale) == Rat((2 * x[1] * scale + x[2]) \div (2 * x[2]), scale)

\* ------------------------------------------------------------------------
\* Configuration of scripts/train_model.ts
\* ------------------------------------------------------------------------

FEATURE_NAMES ==
  << "session_avg_sec", "idle_ratio", "app_switch_count", "work_notif_count",
     "personal_notif_count", "avg_notif_sentiment", "hours_slept", "steps",
     "hrv", "time_at_work_ratio", "location_switches", "commute_min" >>

PREDICTION_WINDOW_DAYS == 14

RIDGE_LAMBDA == R(1)

MS_PER_DAY == 86400000

\* The pivot substitute 1e-12 of ridgeFit.
PIVOT_EPS == <<1, 1, 1>>

\* ------------------------------------------------------------------------
\* ridgeFit
\* ------------------------------------------------------------------------

\* A sequence built by map, as the array it is in the program.
Arr(s) == SubSeq(s, 1, Len(s))

Dot(u, v) == RSum(Arr([k \in 1..Len(u) |-> RMul(u[k], v[k])]))

\* A search that moves to a later row on a tie as well.
RECURSIVE PivotRow_LastTie(_, _, _, _)
PivotRow_LastTie(A, i, r, max) ==
  IF r > Len(A) THEN max
  ELSE PivotRow_LastTie(A, i, r + 1,
                        IF RLe(RAbs(A[max][i]), RAbs(A[r][i])) THEN r ELSE max)

\* for (r = i+1; r < p; r++) if (|A[r][i]| > |A[max][i]|) max = r
RECURSIVE PivotRow(_, _, _, _)
PivotRow(A, i, r, max) ==
  IF r > Len(A) THEN max
  ELSE PivotRow(A, i, r + 1,
                IF RLt(RAbs(A[max][i]), RAbs(A[r][i])) THEN r ELSE max)

Swap(s, i, j) == [s EXCEPT ![i] = s[j], ![j] = s[i]]

\* const piv = A[i][i] || 1e-12
PivotOrEps(x) == IF x = Zero THEN PIVOT_EPS ELSE x

\* The two swaps of a pass, the row max found.
Swapped(A, b, i, max) == [max |-> max, A |-> Swap(A, i, max), b |-> Swap(b, i, max)]

\* The pivot search of column i and the two swaps that follow it.
SelectPivot(A, b, i) == Swapped(A, b, i, PivotRow(A, i, i + 1, i))

\* Lines 98-103: row i, divided, is taken out of the other rows.
Reduced(A1, b1, i, rowi, bi) ==
  << Arr([r \in 1..Len(A1) |->
        IF r = i THEN rowi
        ELSE Arr([j \in 1..Len(A1) |->
                IF j >= i THEN RSub(A1[r][j], RMul(A1[r][i], rowi[j]))
                ELSE A1[r][j]])]),
     Arr([r \in 1..Len(A1) |->
        IF r = i THEN bi ELSE RSub(b1[r], RMul(A1[r][i], bi))]) >>

\* Lines 95-96: row i and b[i] are divided by piv.
Divided(A1, b1, i, piv) ==
  Reduced(A1, b1, i,
          Arr([j \in 1..Len(A1) |-> IF j >= i THEN RDiv(A1[i][j], piv) ELSE A1[i][j]]),
          RDiv(b1[i], piv))

\* Line 94 and what follows it, the swaps done.
Pivoted(sel, i) == Divided(sel.A, sel.b, i, PivotOrEps(sel.A[i][i]))

\* One pass of the loop of lines 87-104: <<A, b>> after it.
Eliminate(A, b, i) == Pivoted(SelectPivot(A, b, i), i)

RECURSIVE Solve(_, _, _)
SolveFrom(s, i) == Solve(s[1], s[2], i)
Solve(A, b, i) ==
  IF i > Len(A) THEN b ELSE SolveFrom(Eliminate(A, b, i), i + 1)

\* What a pass does: A and b as the pass finds them, the row max it swaps
\* with row i, A and b after the swaps, the pivot A[i][i] it then reads and
\* the divisor piv it uses.
StepOf(A, b, i, sel) ==
  [i |-> i, A |-> A, b |-> b, max |-> sel.max,
   swappedA |-> sel.A, swappedB |-> sel.b,
   pivot |-> sel.A[i][i], piv |-> PivotOrEps(sel.A[i][i])]

\* The passes of the elimination loop from column i on.
RECURSIVE EliminationSteps(_, _, _)
StepsFrom(s, i) == EliminationSteps(s[1], s[2], i)
EliminationSteps(A, b, i) ==
  IF i > Len(A) THEN <<>>
  ELSE <<StepOf(A, b, i, SelectPivot(A, b, i))>> \o StepsFrom(Eliminate(A, b, i), i + 1)

EMPTY_DESIGN_MATRIX == [error |-> "Empty design matrix"]

\* A guard that asks for two rows.
IsEmptyDesign_OneRow(X) == Len(X) < 2

\* !X.length
IsEmptyDesign(X) == Len(X) = 0

\* X^T, X^T X + lambda I and X^T y of a design matrix with a row or more.
XT(X) == Arr([i \in 1..Len(X[1]) |-> Arr([k \in 1..Len(X) |-> X[k][i]])])

\* A Gram matrix that takes the default penalty 1 whatever lambda is.
XTX_DefaultPenalty(X, lambda) ==
  LET T == XT(X)
  IN  Arr([i \in 1..Len(T) |-> Arr([j \in 1..Len(T) |->
            IF i = j THEN RAdd(Dot(T[i], T[j]), R(1))
            ELSE Dot(T[i], T[j])])])

XTX(X, lambda) ==
  LET T == XT(X)
  IN  Arr([i \in 1..Len(T) |-> Arr([j \in 1..Len(T) |->
            IF i = j THEN RAdd(Dot(T[i], T[j]), lambda)
            ELSE Dot(T[i], T[j])])])

XTy(X, y) == LET T == XT(X) IN Arr([i \in 1..Len(T) |-> Dot(T[i], y)])

\* An intercept that is the mean of y, as if the columns had been centred.
Intercept_MeanOfY(X, y, beta) == RDiv(RSum(y), R(Len(y)))

\* predsNoIntercept, residuals and their mean.
Intercept(X, y, beta) ==
  LET residuals == Arr([k \in 1..Len(X) |-> RSub(y[k], Dot(X[k], beta))])
  IN  RDiv(RSum(residuals), R(Len(residuals)))

\* Lines 106-111: beta is the solution, the intercept the mean residual.
Fitted(X, y, beta) == [beta |-> beta, intercept |-> Intercept(X, y, beta)]

ridgeFit(X, y, lambda) ==
  IF IsEmptyDesign(X) THEN EMPTY_DESIGN_MATRIX
  ELSE
    Fitted(X, y, Solve(XTX(X, lambda), XTy(X, y), 1))

\* ------------------------------------------------------------------------
\* Bounds of the model
\* ------------------------------------------------------------------------

\* Clock advances; each is TICK_MS long.
MaxTicks == 2

\* Two invocations of scripts/train_model.ts, free to overlap.
Runs == {"run1", "run2"}
Users == {"u1", "u2"}

\* The clock advances in half seconds from one second before midnight UTC, so
\* that two instants share a second, and a later one falls on the next day.
TICK_MS == 500
StartNow == 16 * MS_PER_DAY - 1000

\* ------------------------------------------------------------------------
\* Rows of daily_features
\* ------------------------------------------------------------------------

DailyFeature(u, d, fv, label) ==
  [ user_id |-> u, day |-> d,
    session_avg_sec |-> fv[1], idle_ratio |-> fv[2], app_switch_count |-> fv[3],
    work_notif_count |-> fv[4], personal_notif_count |-> fv[5],
    avg_notif_sentiment |-> fv[6], hours_slept |-> fv[7], steps |-> fv[8],
    hrv |-> fv[9], time_at_work_ratio |-> fv[10], location_switches |-> fv[11],
    commute_min |-> fv[12], mood_label |-> label ]

P == Len(FEATURE_NAMES)

\* Feature vectors the stored rows are drawn from: two complete ones, one
\* with hrv missing, one with steps and commute_min missing.
FvOnes    == [k \in 1..P |-> R(1)]
FvSteps   == [k \in 1..P |-> IF k = 8 THEN R(2) ELSE R(1)]
FvNoHrv   == [k \in 1..P |-> IF k = 9 THEN NULL ELSE IF k = 2 THEN <<1, 2>> ELSE R(1)]
FvSparse  == [k \in 1..P |-> IF k \in {8, 12} THEN NULL ELSE R(2)]

\* ------------------------------------------------------------------------
\* State
\* ------------------------------------------------------------------------

VARIABLES
  now,                       \* Date.now(), milliseconds since the epoch
  ticks,                     \* clock advances so far
  daily_features,            \* the tables, each a sequence of rows
  model_registry,
  model_feature_importance,
  model_predictions,
  run,                       \* per invocation of main(): its position and locals
  system_events,             \* the raw event log, a set of rows
  agg,                       \* the aggregateAllUsersForDay call in progress
  lastUpsert,                \* history: per (user_id, day), the row last upserted
  replaced,                  \* history: per (user_id, day), the row that upsert replaced
  returns,                   \* history: what aggregateUserDay returned, per store content
  workers,                   \* per-user aggregation tasks run side by side
  fitCall,                   \* a call of ridgeFit: its arguments and what came of it
  report                     \* a GET of one of the two report routes

aggVars == <<system_events, agg, lastUpsert, replaced, returns, workers, fitCall, report>>

vars == <<now, ticks, daily_features, model_registry, model_feature_importance,
          model_predictions, run, aggVars>>

tables == <<daily_features, model_registry, model_feature_importance, model_predictions>>

\* ------------------------------------------------------------------------
\* Helpers of scripts/train_model.ts
\* ------------------------------------------------------------------------

\* new Date(ms).toISOString().slice(0, 10), as the number of the UTC day.
ISODate(ms) == ms \div MS_PER_DAY

\* v<YYYYMMDD>-<hhmmss> of the current UTC time; milliseconds are dropped.
nowVersion(ms) ==
  LET t == ms % MS_PER_DAY
  IN  << ISODate(ms), t \div 3600000, (t % 3600000) \div 60000, (t % 60000) \div 1000 >>

\* A missing value read as 1.
NumberOr0_One(v) == IF v = NULL THEN R(1) ELSE v

\* Number(r[f] ?? 0)
NumberOr0(v) == IF v = NULL THEN Zero ELSE v

FeatureVector(r) == Arr([k \in 1..P |-> NumberOr0(r[FEATURE_NAMES[k]])])

\* .not("mood_label", "is", null)
IsLabeled(r) == r.mood_label # NULL

\* Only the features that are not counts are asked for.
IsCleanRow_CountsOptional(r) ==
  \A k \in 1..P : k \in {3, 4, 5, 11, 12} \/ r[FEATURE_NAMES[k]] # NULL

\* FEATURE_NAMES.every((f) => r[f] !== null && r[f] !== undefined)
IsCleanRow(r) == \A k \in 1..P : r[FEATURE_NAMES[k]] # NULL

\* intercept + row.reduce((s, v, j) => s + v * beta[j], 0)
Predict(beta, intercept, xx) == RAdd(intercept, Dot(xx, beta))

\* The mean of the errors with their signs.
MeanAbsError_Signed(yhat, y) ==
  RDiv(RSum(Arr([k \in 1..Len(y) |-> RSub(yhat[k], y[k])])), R(Len(y)))

\* yhat.reduce((s, p, i) => s + Math.abs(p - y[i]), 0) / yhat.length
MeanAbsError(yhat, y) ==
  RDiv(RSum(Arr([k \in 1..Len(y) |-> RAbs(RSub(yhat[k], y[k]))])), R(Len(y)))

\* coef[i] / norm, the sign kept.
Importances_Signed(model_version, beta) ==
  LET abs  == Arr([k \in 1..Len(beta) |-> RAbs(beta[k])])
      sum  == RSum(abs)
      norm == IF sum = Zero THEN R(1) ELSE sum
  IN  Arr([k \in 1..P |->
        [ model_version |-> model_version, feature |-> FEATURE_NAMES[k],
          importance |-> RDiv(beta[k], norm) ]])

\* abs[i] / norm with norm = sum(abs) || 1
Importances(model_version, beta) ==
  LET abs  == Arr([k \in 1..Len(beta) |-> RAbs(beta[k])])
      sum  == RSum(abs)
      norm == IF sum = Zero THEN R(1) ELSE sum
  IN  Arr([k \in 1..P |->
        [ model_version |-> model_version, feature |-> FEATURE_NAMES[k],
          importance |-> RDiv(abs[k], norm) ]])

\* .gt in place of .gte
InWindow_Strict(r, since) == r.day > since

\* .gte("day", since)
InWindow(r, since) == r.day >= since

\* A prediction that leaves the intercept out.
PredRow_NoIntercept(model_version, beta, intercept, r) ==
  [ model_version |-> model_version, user_id |-> r.user_id, day |-> r.day,
    y_true |-> r.mood_label,
    y_pred |-> ToFixed(Dot(FeatureVector(r), beta), 100),
    proba_at_risk |-> NULL ]

PredRow(model_version, beta, intercept, r) ==
  [ model_version |-> model_version, user_id |-> r.user_id, day |-> r.day,
    y_true |-> r.mood_label,
    y_pred |-> ToFixed(Predict(beta, intercept, FeatureVector(r)), 100),
    proba_at_risk |-> NULL ]

\* ------------------------------------------------------------------------
\* The store
\* ------------------------------------------------------------------------

Range(seq) == {seq[k] : k \in DOMAIN seq}

\* A conflict target of the day alone.
SameUserDay_DayOnly(a, b) == a.day = b.day

\* unique(user_id, day)
SameUserDay(a, b) == a.user_id = b.user_id /\ a.day = b.day

\* unique(model_version, user_id, day)
SamePredictionKey(a, b) ==
  a.model_version = b.model_version /\ a.user_id = b.user_id /\ a.day = b.day

\* The least index in S, 0 when S is empty.
FirstOf(S) == IF S = {} THEN 0 ELSE CHOOSE i \in S : \A j \in S : i <= j

\* An upsert that keeps the stored value where the new one is null.
UpsertOnUserDay_KeepNonNull(t, row) ==
  LET i == FirstOf({j \in DOMAIN t : SameUserDay(t[j], row)})
  IN  IF i = 0 THEN Append(t, row)
      ELSE [t EXCEPT ![i] = [f \in DOMAIN row |->
              IF f \notin {"user_id", "day"} /\ row[f] = NULL THEN t[i][f] ELSE row[f]]]

\* .upsert(row, { onConflict: "user_id,day" }): INSERT ... ON CONFLICT
\* (user_id, day) DO UPDATE SET every column of the payload, nulls included.
UpsertOnUserDay(t, row) ==
  LET i == FirstOf({j \in DOMAIN t : SameUserDay(t[j], row)})
  IN  IF i = 0 THEN Append(t, row) ELSE [t EXCEPT ![i] = row]

\* A plain insert in place of the upsert.
UpsertOnPredictionKey_Insert(t, row) == Append(t, row)

\* .upsert(predRows, { onConflict: "model_version,user_id,day" }), one row
UpsertOnPredictionKey(t, row) ==
  LET i == FirstOf({j \in DOMAIN t : SamePredictionKey(t[j], row)})
  IN  IF i = 0 THEN Append(t, row) ELSE [t EXCEPT ![i] = row]

RECURSIVE UpsertPredictions(_, _)
UpsertPredictions(t, rows) ==
  IF rows = <<>> THEN t
  ELSE UpsertPredictions(UpsertOnPredictionKey(t, Head(rows)), Tail(rows))

\* A registry without the primary key.
HasVersion_Never(registry, v) == FALSE

\* model_version text primary key
HasVersion(registry, v) == \E i \in DOMAIN registry : registry[i].model_version = v

\* An upsert in place of the insert: the entry under the key is replaced.
RegistryInsert_Upsert(registry, row) ==
  LET i == FirstOf({j \in DOMAIN registry : registry[j].model_version = row.model_version})
  IN  [ error |-> "",
        table |-> IF i = 0 THEN Append(registry, row) ELSE [registry EXCEPT ![i] = row] ]

\* INSERT into model_registry: refused when the primary key is taken.
RegistryInsert(registry, row) ==
  IF HasVersion(registry, row.model_version)
  THEN [error |-> "unique_violation", table |-> registry]
  ELSE [error |-> "", table |-> Append(registry, row)]

\* A row-by-row insert in place of the single statement: a failure leaves the
\* rows sent before it.
ImportanceInsert_RowByRow(table, rows, ok) ==
  IF ok THEN table \o rows ELSE table \o SubSeq(rows, 1, 1)

\* INSERT of the 12 importance rows, one statement: all rows or none.
ImportanceInsert(table, rows, ok) == IF ok THEN table \o rows ELSE table

\* ------------------------------------------------------------------------
\* The feature store: aggregateUserDay, aggregateAllUsersForDay
\* ------------------------------------------------------------------------

\* A row of system_events; the columns an event does not use are null.
Event(id, u, ts, type) ==
  [ id |-> id, user_id |-> u, ts |-> ts, event_type |-> type,
    duration_sec |-> NULL, location_category |-> "", action_after |-> "",
    notification_sender_type |-> "", message_sentiment |-> NULL, mood_rating |-> NULL ]

\* startOfDayISO / endOfDayISO of the day, in milliseconds
startOfDay(day) == day * MS_PER_DAY
endOfDay_WholeSecond(day) == day * MS_PER_DAY + ((23 * 60 + 59) * 60 + 59) * 1000
endOfDay(day) == day * MS_PER_DAY + ((23 * 60 + 59) * 60 + 59) * 1000 + 999

\* .gte("ts", from).lte("ts", to)
InDay(e, day) == startOfDay(day) <= e.ts /\ e.ts <= endOfDay(day)

\* x || 0 and x || null of a number
OrZero_One(v) == IF v = NULL THEN R(1) ELSE v
OrZero(v) == IF v = NULL THEN Zero ELSE v
OrNull_KeepZero(v) == v
OrNull(v) == IF v = Zero THEN NULL ELSE v

\* Math.round
MathRound(x) == R((2 * x[1] + x[2]) \div (2 * x[2]))

\* (e.action_after || '').toLowerCase().includes('switch')
IncludesSwitch(action) == action \in {"Switched app", "switch", "SWITCH_TAB"}

SumDuration(events) == RSum(Arr([k \in 1..Len(events) |-> OrZero(events[k].duration_sec)]))

\* The orders in which a select without ORDER BY may return the rows S.
Orderings(S) == {o \in [1..Cardinality(S) -> S] : Range(o) = S}

\* Lines 268-334 of aggregateUserDay: the row derived from the events as the
\* select returned them.
DeriveDailyFeature(userId, day, events) ==
  LET IsApp(e)      == e.event_type = "app_usage"
      IsNotif(e)    == e.event_type = "notification"
      IsLocation(e) == e.event_type = "location"
      IsActivity(e) == e.event_type = "activity"
      IsMood(e)     == e.event_type = "mood_log"
      appEvents      == SelectSeq(events, IsApp)
      notifEvents    == SelectSeq(events, IsNotif)
      locationEvents == SelectSeq(events, IsLocation)
      activityEvents == SelectSeq(events, IsActivity)
      moodLogs       == SelectSeq(events, IsMood)
      IsIdle(e)     == e.action_after = "idle"
      IsSwitch(e)   == IncludesSwitch(e.action_after)
      IsWorkN(e)    == e.notification_sender_type = "work"
      IsPersonalN(e) == e.notification_sender_type = "personal"
      IsAtWork(e)   == e.location_category = "work"
      IsCommute(e)  == e.location_category = "commute"
      idleDur  == SumDuration(SelectSeq(activityEvents, IsIdle))
      totalDur == RAdd(SumDuration(appEvents), idleDur)
      locTotal == SumDuration(locationEvents)
      \* activityEvents.find(e => e.action_after === tag)
      Find(tag) == FirstOf({k \in DOMAIN activityEvents : activityEvents[k].action_after = tag})
      sleep == Find("sleep_summary")
      stp   == Find("steps")
      hv    == Find("hrv")
      fv == <<
        IF Len(appEvents) # 0
          THEN MathRound(RDiv(SumDuration(appEvents), R(Len(appEvents)))) ELSE NULL,
        IF RLt(Zero, totalDur) THEN RDiv(idleDur, totalDur) ELSE NULL,
        OrNull(R(Len(SelectSeq(appEvents, IsSwitch)))),
        OrNull(R(Len(SelectSeq(notifEvents, IsWorkN)))),
        OrNull(R(Len(SelectSeq(notifEvents, IsPersonalN)))),
        IF Len(notifEvents) # 0
          THEN RDiv(RSum(Arr([k \in 1..Len(notifEvents) |->
                        OrZero(notifEvents[k].message_sentiment)])), R(Len(notifEvents)))
          ELSE NULL,
        IF sleep # 0 /\ OrZero(activityEvents[sleep].duration_sec) # Zero
          THEN ToFixed(RDiv(activityEvents[sleep].duration_sec, R(3600)), 100) ELSE NULL,
        IF stp # 0 THEN OrNull(OrZero(activityEvents[stp].duration_sec)) ELSE NULL,
        IF hv # 0 THEN OrNull(OrZero(activityEvents[hv].message_sentiment)) ELSE NULL,
        IF locTotal = Zero THEN NULL
          ELSE RDiv(SumDuration(SelectSeq(locationEvents, IsAtWork)), locTotal),
        OrNull(R(IF Len(locationEvents) - 1 > 0 THEN Len(locationEvents) - 1 ELSE 0)),
        OrNull(MathRound(RDiv(SumDuration(SelectSeq(locationEvents, IsCommute)), R(60)))) >>
      mood_label ==
        IF Len(moodLogs) # 0
          THEN MathRound(RDiv(RSum(Arr([k \in 1..Len(moodLogs) |->
                          OrZero(moodLogs[k].mood_rating)])), R(Len(moodLogs))))
          ELSE NULL
  IN  DailyFeature(userId, day, fv, mood_label)

\* Lines 259-266 of aggregateUserDay: the rows of the user in the day's window.
UserDayEvents(store, userId, day) ==
  {e \in store : e.user_id = userId /\ InDay(e, day)}

\* Events an agent may log.
MaxEvents == 3

AggDays == {1, 2}

WithSteps(e, n) == [e EXCEPT !.action_after = "steps", !.duration_sec = R(n)]

EventCatalog ==
  { WithSteps(Event("e1", "u1", startOfDay(1), "activity"), 2),
    WithSteps(Event("e2", "u1", endOfDay(1), "activity"), 3),
    [Event("e3", "u1", startOfDay(1) + 1000, "mood_log") EXCEPT !.mood_rating = R(4)],
    [Event("e4", "u2", startOfDay(1) + 2000, "app_usage")
       EXCEPT !.action_after = "Switched app", !.duration_sec = R(3)],
    [Event("e5", "u2", startOfDay(2), "activity")
       EXCEPT !.action_after = "idle", !.duration_sec = R(1)] }

\* Rows a caller hands to upsertDailyFeature directly.
DirectRows == {DailyFeature("u1", 1, FvSparse, NULL)}

\* ------------------------------------------------------------------------
\* Seed contents of daily_features (scripts/seed_dummy_daily_features.ts and
\* earlier aggregations) and the rows later upserts bring.
\* ------------------------------------------------------------------------

\* One complete labeled row and one labeled row without hrv.
SeedOneComplete ==
  << DailyFeature("u1", 2, FvOnes, R(3)), DailyFeature("u2", 2, FvNoHrv, R(4)) >>

\* Two complete labeled rows, both older than any prediction window.
SeedOld ==
  << DailyFeature("u1", 0, FvOnes, R(3)), DailyFeature("u2", 0, FvSteps, R(4)) >>

\* Two complete labeled rows, a labeled row without hrv, an unlabeled sparse row.
SeedMixed ==
  << DailyFeature("u1", 0, FvOnes, R(3)), DailyFeature("u1", 2, FvSteps, R(4)),
     DailyFeature("u2", 2, FvNoHrv, R(5)), DailyFeature("u2", 1, FvSparse, NULL) >>

SeedTables == { <<>>, SeedOneComplete, SeedOld, SeedMixed }

UpsertRows == { DailyFeature("u2", 2, FvSteps, R(5)) }

\* Every content daily_features can take: the seeds, closed under the upserts.
RECURSIVE UpsertClosure(_)
UpsertClosure(T) ==
  LET more == T \cup {UpsertOnUserDay(t, row) : t \in T, row \in UpsertRows}
  IN  IF more = T THEN T ELSE UpsertClosure(more)

FeatureTables == UpsertClosure(SeedTables)

\* Three complete labeled rows of one feature vector, labels 3, 4 and 5, and
\* what an upsert makes of them.
SeedThree ==
  << DailyFeature("u1", 1, FvOnes, R(3)), DailyFeature("u2", 1, FvOnes, R(4)),
     DailyFeature("u1", 2, FvOnes, R(5)) >>

TrainTables == UpsertClosure({SeedThree})

\* ------------------------------------------------------------------------
\* Event rows of the five types
\* ------------------------------------------------------------------------

App(id, ts, action, sec) ==
  [Event(id, "u1", ts, "app_usage") EXCEPT !.action_after = action, !.duration_sec = sec]

Notif(id, ts, sender, sentiment) ==
  [Event(id, "u1", ts, "notification")
     EXCEPT !.notification_sender_type = sender, !.message_sentiment = sentiment]

Location(id, ts, category, sec) ==
  [Event(id, "u1", ts, "location") EXCEPT !.location_category = category, !.duration_sec = sec]

MoodLog(id, u, ts, rating) == [Event(id, u, ts, "mood_log") EXCEPT !.mood_rating = rating]

Activity(id, ts, tag, sec, value) ==
  [Event(id, "u1", ts, "activity")
     EXCEPT !.action_after = tag, !.duration_sec = sec, !.message_sentiment = value]

COUNT_FEATURES ==
  {"app_switch_count", "work_notif_count", "personal_notif_count",
   "location_switches", "commute_min"}

\* ------------------------------------------------------------------------
\* From events to the training set: aggregateAllUsersForDay over days of
\* events of every type, and one run of scripts/train_model.ts over the
\* rows it wrote.
\* ------------------------------------------------------------------------

OfUser(u, e) == [e EXCEPT !.user_id = u]

\* A day that derives a complete labeled row: an app session that switched,
\* a work and a personal notification, a stay at work, a commute of a
\* minute, a sleep summary, steps, hrv and a mood log.
FullDay(u, d, ids, t, steps, label) ==
  LET at == startOfDay(d) + t
  IN  { OfUser(u, App(ids[1], at + 1, "Switched app", R(3))),
        OfUser(u, Notif(ids[2], at + 2, "work", R(1))),
        OfUser(u, Notif(ids[3], at + 3, "personal", R(1))),
        OfUser(u, Location(ids[4], at + 4, "work", R(60))),
        OfUser(u, Location(ids[5], at + 5, "commute", R(60))),
        OfUser(u, Activity(ids[6], at + 6, "sleep_summary", R(3600), NULL)),
        OfUser(u, Activity(ids[7], at + 7, "steps", R(steps), NULL)),
        OfUser(u, Activity(ids[8], at + 8, "hrv", NULL, R(1))),
        MoodLog(ids[9], u, at + 9, R(label)) }

FirstDayOfU1 == FullDay("u1", 1, <<"p1", "p2", "p3", "p4", "p5", "p6", "p7", "p8", "p9">>, 0, 2, 3)
FirstDayOfU2 == FullDay("u2", 1, <<"q1", "q2", "q3", "q4", "q5", "q6", "q7", "q8", "q9">>, 10, 4, 4)
SecondDayOfU1 == FullDay("u1", 2, <<"r1", "r2", "r3", "r4", "r5", "r6", "r7", "r8", "r9">>, 0, 2, 5)

\* The second day of u1 with one of its events changed so that a count of
\* the day is 0: the app session switched nothing, the work (personal)
\* notification has another sender, the stay at work is missing (one
\* location event), the commute lasted 29 seconds.
ZeroCountDay(f) ==
  LET Changed(e) ==
        CASE f = "app_switch_count" /\ e.id = "r1" -> {[e EXCEPT !.action_after = "Opened"]}
          [] f = "work_notif_count" /\ e.id = "r2" -> {[e EXCEPT !.notification_sender_type = ""]}
          [] f = "personal_notif_count" /\ e.id = "r3" -> {[e EXCEPT !.notification_sender_type = ""]}
          [] f = "location_switches" /\ e.id = "r4" -> {}
          [] f = "commute_min" /\ e.id = "r5" -> {[e EXCEPT !.duration_sec = R(29)]}
          [] OTHER -> {e}
  IN  UNION {Changed(e) : e \in SecondDayOfU1}

\* Event stores: two full days and a third day, full or with a count of 0;
\* and one full day with a day that has a count of 0.
PipelineStores ==
  {FirstDayOfU1 \cup FirstDayOfU2 \cup SecondDayOfU1}
    \cup {FirstDayOfU1 \cup FirstDayOfU2 \cup ZeroCountDay(f) : f \in COUNT_FEATURES}
    \cup {FirstDayOfU1 \cup ZeroCountDay("commute_min")}

\* The rows S in the order of ts.
RECURSIVE ByTs(_)
ByTs(S) ==
  IF S = {} THEN <<>>
  ELSE LET e == CHOOSE e \in S : \A f \in S : e.ts <= f.ts
       IN  <<e>> \o ByTs(S \ {e})

Reverse(s) == [k \in 1..Len(s) |-> s[Len(s) + 1 - k]]

\* Two orders in which a select without ORDER BY returns the rows S: a scan
\* in the order of ts and a scan against it.
ScanOrders(S) == {Arr(ByTs(S)), Arr(Reverse(ByTs(S)))}

\* The rows aggregateAllUsersForDay writes over a store, and the contents
\* daily_features takes as it writes them.
PipelineRows(S) ==
  {DeriveDailyFeature(x[1], x[2], ByTs(UserDayEvents(S, x[1], x[2]))) :
     x \in {y \in Users \X AggDays : UserDayEvents(S, y[1], y[2]) # {}}}

RECURSIVE TablesOf(_, _)
TablesOf(T, rows) ==
  LET more == T \cup {UpsertOnUserDay(t, row) : t \in T, row \in rows}
  IN  IF more = T THEN T ELSE TablesOf(more, rows)

PipelineTables == UNION {TablesOf({<<>>}, PipelineRows(S)) : S \in PipelineStores}

\* ------------------------------------------------------------------------
\* main() of scripts/train_model.ts, one action per awaited store call
\* ------------------------------------------------------------------------

NewRun ==
  [ pc |-> "load", cleanRows |-> <<>>, beta |-> <<>>,
    intercept |-> Zero, mae |-> Zero, model_version |-> NULL, since |-> 0,
    predRows |-> <<>>,
    \* what the process printed, and its exit code (-1 while it runs)
    stdout |-> <<>>, stderr |-> <<>>, exit |-> -1,
    \* history: the store writes attempted, daily_features as the training
    \* select saw it, Date.now() when since was taken, daily_features as the
    \* window select saw it
    writes |-> <<>>, loadTable |-> <<>>, sinceNow |-> 0, windowTable |-> <<>> ]

\* The error is logged and swallowed: the run stays where it is.
Throw_Swallow(rec, e) == [rec EXCEPT !.stderr = Append(@, e)]

\* The error is printed with console.log.
Throw_ToStdout(rec, e) == [rec EXCEPT !.pc = "failed", !.stdout = Append(@, e), !.exit = 1]

\* throw e, caught by main().catch: console.error(e); process.exit(1)
Throw(rec, e) == [rec EXCEPT !.pc = "failed", !.stderr = Append(@, e), !.exit = 1]

\* The threshold off by one.
TooFewRows_One(cleanRows) == Len(cleanRows) < 1

\* if (cleanRows.length < 2) throw
TooFewRows(cleanRows) == Len(cleanRows) < 2

\* console.log(JSON.stringify({model_version, train_rows, train_mae}))
Succeed(rec) ==
  [rec EXCEPT !.pc = "done", !.exit = 0,
     !.stdout = Append(@, [ model_version |-> rec.model_version,
                            train_rows |-> Len(rec.cleanRows),
                            train_mae |-> ToFixed(rec.mae, 1000) ])]

Wrote(rec, table, ok) == [rec EXCEPT !.writes = Append(@, [table |-> table, ok |-> ok])]

\* FEATURE_NAMES.every(...) over the rows with a label
CleanRows(table) == SelectSeq(SelectSeq(table, IsLabeled), IsCleanRow)

\* Lines 134-142: the design matrix, the fit and the in-sample error.
Scored(X, y, fit) ==
  [beta |-> fit.beta, intercept |-> fit.intercept,
   mae |-> MeanAbsError(Arr([k \in 1..Len(X) |-> Predict(fit.beta, fit.intercept, X[k])]), y)]

FittedTo(X, y) == Scored(X, y, ridgeFit(X, y, RIDGE_LAMBDA))

FitRows(cleanRows) ==
  FittedTo(Arr([k \in 1..Len(cleanRows) |-> FeatureVector(cleanRows[k])]),
           Arr([k \in 1..Len(cleanRows) |-> NumberOr0(cleanRows[k].mood_label)]))

\* FitRows is a pure function of the rows: each distinct list of rows is
\* fitted once and the result looked up.
Fits ==
  [c \in {CleanRows(t) : t \in FeatureTables \cup TrainTables \cup PipelineTables} \ {<<>>}
     |-> FitRows(c)] @@ <<>>

TrainModel(cleanRows) == Fits[cleanRows]

\* Lines 117-145: select the labeled rows, filter, fit, take the version.
Loaded(rec, table, t) ==
  LET rows      == SelectSeq(table, IsLabeled)
      cleanRows == SelectSeq(rows, IsCleanRow)
      read      == [rec EXCEPT !.loadTable = table]
  IN  IF Len(rows) = 0
      THEN Throw(read, "No labeled daily_features rows found.")
      ELSE IF TooFewRows(cleanRows)
      THEN Throw([read EXCEPT !.cleanRows = cleanRows],
                 "Not enough complete rows to train.")
      ELSE TrainModel(cleanRows) @@
           [read EXCEPT !.pc = "insert_registry", !.cleanRows = cleanRows,
                        !.model_version = nowVersion(t)]

Load(r) ==
  /\ run[r].pc = "load"
  /\ \/ run' = [run EXCEPT ![r] = Throw(@, "RepositoryError")]
     \/ run' = [run EXCEPT ![r] = Loaded(@, daily_features, now)]
  /\ UNCHANGED <<now, ticks, tables, aggVars>>

RegistryRow(rec, created_at) ==
  [ model_version |-> rec.model_version, created_at |-> created_at,
    features |-> FEATURE_NAMES, coefficients |-> rec.beta,
    intercept |-> rec.intercept, lambda |-> RIDGE_LAMBDA, train_mae |-> rec.mae,
    notes |-> "Ridge regression demo model" ]

\* Lines 146-155.
InsertRegistry(r) ==
  /\ run[r].pc = "insert_registry"
  /\ \/ /\ run' = [run EXCEPT ![r] = Throw(Wrote(@, "model_registry", FALSE), "RepositoryError")]
        /\ UNCHANGED model_registry
     \/ LET res == RegistryInsert(model_registry, RegistryRow(run[r], now))
        IN  /\ model_registry' = res.table
            /\ run' = [run EXCEPT ![r] =
                 IF res.error # ""
                 THEN Throw(Wrote(@, "model_registry", FALSE), res.error)
                 ELSE [Wrote(@, "model_registry", TRUE) EXCEPT !.pc = "insert_importance"]]
  /\ UNCHANGED <<now, ticks, daily_features, model_feature_importance, model_predictions, aggVars>>

\* Line 170: since, the date PREDICTION_WINDOW_DAYS before Date.now().
TakeSince(rec, t) ==
  [rec EXCEPT !.pc = "read_window",
              !.since = ISODate(t - PREDICTION_WINDOW_DAYS * MS_PER_DAY),
              !.sinceNow = t]

\* Lines 157-170: insert the importances; on success since is taken.
InsertImportance(r) ==
  /\ run[r].pc = "insert_importance"
  /\ \/ /\ run' = [run EXCEPT ![r] =
                Throw(Wrote(@, "model_feature_importance", FALSE), "RepositoryError")]
        /\ model_feature_importance' =
             ImportanceInsert(model_feature_importance,
                              Importances(run[r].model_version, run[r].beta), FALSE)
     \/ /\ model_feature_importance' =
             ImportanceInsert(model_feature_importance,
                              Importances(run[r].model_version, run[r].beta), TRUE)
        /\ run' = [run EXCEPT ![r] =
             TakeSince(Wrote(@, "model_feature_importance", TRUE), now)]
  /\ UNCHANGED <<now, ticks, daily_features, model_registry, model_predictions, aggVars>>

\* Lines 171-191 (and 198-204 when the window is empty).
ReadWindow(r) ==
  /\ run[r].pc = "read_window"
  /\ \/ run' = [run EXCEPT ![r] = Throw(@, "RepositoryError")]
     \/ LET since == run[r].since
            Pick(row) == InWindow(row, since)
            lastN == SelectSeq(daily_features, Pick)
            predRows == Arr([k \in 1..Len(lastN) |->
                          PredRow(run[r].model_version, run[r].beta, run[r].intercept, lastN[k])])
            rec == [run[r] EXCEPT !.predRows = predRows, !.windowTable = daily_features]
        IN  run' = [run EXCEPT ![r] =
              IF Len(predRows) # 0 THEN [rec EXCEPT !.pc = "upsert_predictions"]
              ELSE Succeed(rec)]
  /\ UNCHANGED <<now, ticks, tables, aggVars>>

\* Lines 192-204.
UpsertPredRows(r) ==
  /\ run[r].pc = "upsert_predictions"
  /\ \/ /\ run' = [run EXCEPT ![r] =
                Throw(Wrote(@, "model_predictions", FALSE), "RepositoryError")]
        /\ UNCHANGED model_predictions
     \/ /\ model_predictions' = UpsertPredictions(model_predictions, run[r].predRows)
        /\ run' = [run EXCEPT ![r] = Succeed(Wrote(@, "model_predictions", TRUE))]
  /\ UNCHANGED <<now, ticks, daily_features, model_registry, model_feature_importance, aggVars>>

\* The process is killed between two store calls.
Crash(r) ==
  /\ run[r].pc \in {"insert_registry", "insert_importance", "read_window", "upsert_predictions"}
  /\ run' = [run EXCEPT ![r].pc = "crashed"]
  /\ UNCHANGED <<now, ticks, tables, aggVars>>

\* The history of an accepted upsert of row.
NoteUpsert(row) ==
  /\ lastUpsert' = {x \in lastUpsert : ~SameUserDay(x, row)} \cup {row}
  /\ replaced' = {x \in replaced : ~SameUserDay(x, row)}
                   \cup {x \in Range(daily_features) : SameUserDay(x, row)}

\* upsertDailyFeature(row), called on its own and accepted by the store.
upsertDailyFeature(row) ==
  /\ daily_features' = UpsertOnUserDay(daily_features, row)
  /\ NoteUpsert(row)
  /\ UNCHANGED <<now, ticks, model_registry, model_feature_importance, model_predictions,
                 run, fitCall, report, system_events, agg, returns, workers>>

\* ------------------------------------------------------------------------
\* aggregateAllUsersForDay(day), one step per awaited store call
\* ------------------------------------------------------------------------

IdleAgg ==
  [ pc |-> "idle", day |-> 0, unique |-> <<>>, k |-> 0, row |-> <<>>, error |-> "",
    log |-> <<>>,        \* history: the store calls of the loop, in order
    seen |-> {},         \* history: the event store when the users were selected
    response |-> <<>> ]  \* what POST /api/feature-store/aggregate answered last

\* One awaited store call of the loop, for the history.
Called(a, op, uid, ok) == [a EXCEPT !.log = Append(@, [op |-> op, user_id |-> uid, ok |-> ok])]

\* if (error) throw error: the loop is left, the promise rejects.
Rejected(a, error) == [a EXCEPT !.pc = "failed", !.error = error]

\* A loop that goes on to the next user when an upsert fails.
UpsertFailed_Skip(a) ==
  [Called(a, "upsert", a.unique[a.k], FALSE)
     EXCEPT !.pc = IF a.k = Len(a.unique) THEN "done" ELSE "fetch", !.k = a.k + 1, !.row = <<>>]

\* upsertDailyFeature throws inside the loop.
UpsertFailed(a) == Rejected(Called(a, "upsert", a.unique[a.k], FALSE), "upsert")

\* route.ts, POST: { ok: true }, or { error: e.message } with status 500.
Response(a) ==
  IF a.pc = "done" THEN [status |-> 200, body |-> [ok |-> TRUE]]
  ELSE [status |-> 500, body |-> [error |-> a.error]]

\* No per-user task is running.
NoWorkers ==
  [ day |-> 0, unique |-> <<>>, init |-> <<>>, order |-> <<>>,
    task |-> [u \in Users |-> [pc |-> "off", row |-> <<>>]] ]

\* No call of ridgeFit on its own.
NoFitCall ==
  [pc |-> "none", X |-> <<>>, y |-> <<>>, lambda |-> Zero, steps |-> <<>>, result |-> <<>>]

\* No request yet. reg is the registry row the first select returned, seen
\* the registry as that select found it, since the first day of the
\* predictions report.
NoReport ==
  [pc |-> "idle", route |-> "", reg |-> NULL, seen |-> <<>>, since |-> 0, response |-> <<>>]

InitAgg ==
  /\ system_events = {}
  /\ agg = IdleAgg
  /\ workers = NoWorkers
  /\ fitCall = NoFitCall
  /\ report = NoReport
  /\ lastUpsert = {}
  /\ replaced = {}
  /\ returns = {}

\* An agent writes one event row into system_events.
AppendEvent(e) ==
  /\ e \notin system_events
  /\ Cardinality(system_events) < MaxEvents
  /\ system_events' = system_events \cup {e}
  /\ returns' = {x \in returns : ~(x.user_id = e.user_id /\ InDay(e, x.day))}
  /\ UNCHANGED <<now, ticks, tables, run, fitCall, report, agg, lastUpsert, replaced, workers>>

\* users.map(u => u.user_id) kept as it is, one id per event row.
UniqueUsers_NoSet(users) == users

\* Array.from(new Set(users.map(u => u.user_id))): the ids in the order of
\* their first occurrence.
RECURSIVE UniqueUsers(_)
UniqueUsers(users) ==
  IF users = <<>> THEN <<>>
  ELSE LET front == UniqueUsers(SubSeq(users, 1, Len(users) - 1))
           last  == users[Len(users)]
       IN  IF last \in Range(front) THEN front ELSE Append(front, last)

\* Lines 345-353: the user_id select, one row per event of the day in the
\* order the store returns them, and the distinct ids.
AggStart(day) ==
  /\ agg.pc = "idle"
  /\ \/ \E users \in Orderings({x \in system_events : InDay(x, day)}) :
          LET unique == UniqueUsers(Arr([k \in 1..Len(users) |-> users[k].user_id]))
          IN  agg' = [IdleAgg EXCEPT !.pc = IF Len(unique) = 0 THEN "done" ELSE "fetch",
                                     !.day = day, !.unique = unique, !.k = 1,
                                     !.seen = system_events]
     \/ agg' = Rejected([IdleAgg EXCEPT !.day = day], "select user_id")
  /\ UNCHANGED <<now, ticks, tables, run, fitCall, report, system_events, lastUpsert, replaced, returns, workers>>

\* Line 355: aggregateUserDay(uid, day) for the k-th user.
AggFetch ==
  /\ agg.pc = "fetch"
  /\ LET uid == agg.unique[agg.k]
     IN  \/ \E events \in Orderings(UserDayEvents(system_events, uid, agg.day)) :
              LET row == DeriveDailyFeature(uid, agg.day, Arr(events))
              IN  /\ agg' = [Called(agg, "fetch", uid, TRUE) EXCEPT !.pc = "upsert", !.row = row]
                  /\ returns' = returns \cup {[user_id |-> uid, day |-> agg.day, row |-> row]}
         \/ /\ agg' = Rejected(Called(agg, "fetch", uid, FALSE), "select events")
            /\ UNCHANGED returns
  /\ UNCHANGED <<now, ticks, tables, run, fitCall, report, system_events, lastUpsert, replaced, workers>>

\* Line 356: upsertDailyFeature(row) for the k-th user, then the next user.
AggUpsert ==
  /\ agg.pc = "upsert"
  /\ \/ /\ daily_features' = UpsertOnUserDay(daily_features, agg.row)
        /\ NoteUpsert(agg.row)
        /\ agg' = [Called(agg, "upsert", agg.row.user_id, TRUE)
                    EXCEPT !.pc = IF agg.k = Len(agg.unique) THEN "done" ELSE "fetch",
                           !.k = agg.k + 1, !.row = <<>>]
     \/ /\ agg' = UpsertFailed(agg)
        /\ UNCHANGED <<daily_features, lastUpsert, replaced>>
  /\ UNCHANGED <<now, ticks, model_registry, model_feature_importance, model_predictions,
                 run, fitCall, report, system_events, returns, workers>>

\* The promise settles (resolved, or rejected with the error) and the route
\* answers.
AggReturn ==
  /\ agg.pc \in {"done", "failed"}
  /\ agg' = [IdleAgg EXCEPT !.response = <<Response(agg)>>]
  /\ UNCHANGED <<now, ticks, tables, run, fitCall, report, system_events, lastUpsert, replaced, returns, workers>>

Tick ==
  /\ ticks < MaxTicks
  /\ now' = now + TICK_MS
  /\ ticks' = ticks + 1
  /\ UNCHANGED <<tables, run, aggVars>>

Init ==
  /\ now = StartNow
  /\ ticks = 0
  /\ daily_features \in SeedTables
  /\ model_registry = <<>>
  /\ model_feature_importance = <<>>
  /\ model_predictions = <<>>
  /\ run = [r \in Runs |-> NewRun]
  /\ InitAgg

Next ==
  \/ \E r \in Runs : Load(r)
  \/ \E r \in Runs : InsertRegistry(r)
  \/ \E r \in Runs : InsertImportance(r)
  \/ \E r \in Runs : ReadWindow(r)
  \/ \E r \in Runs : UpsertPredRows(r)
  \/ \E r \in Runs : Crash(r)
  \/ \E row \in UpsertRows : upsertDailyFeature(row)
  \/ Tick

Spec == Init /\ [][Next]_vars

\* ------------------------------------------------------------------------
\* The prediction step (lines 169-196) run twice, one execution after the
\* other, with one registered model and daily_features left alone.
\* ------------------------------------------------------------------------

RegisteredModel ==
  TrainModel(CleanRows(SeedMixed)) @@
  [NewRun EXCEPT !.pc = "predict", !.cleanRows = CleanRows(SeedMixed),
                 !.loadTable = SeedMixed, !.model_version = nowVersion(StartNow)]

StartPredict(r) ==
  /\ run[r].pc = "predict"
  /\ \A q \in Runs \ {r} : run[q].pc \in {"predict", "done", "failed"}
  /\ run' = [run EXCEPT ![r] = TakeSince(@, now)]
  /\ UNCHANGED <<now, ticks, tables, aggVars>>

InitPredict ==
  /\ now = StartNow
  /\ ticks = 0
  /\ daily_features \in FeatureTables
  /\ model_registry = <<RegistryRow(RegisteredModel, StartNow)>>
  /\ model_feature_importance =
       Importances(RegisteredModel.model_version, RegisteredModel.beta)
  /\ model_predictions = <<>>
  /\ run = [r \in Runs |-> RegisteredModel]
  /\ InitAgg

NextPredict ==
  \/ \E r \in Runs : StartPredict(r)
  \/ \E r \in Runs : ReadWindow(r)
  \/ \E r \in Runs : UpsertPredRows(r)
  \/ Tick

SpecPredict == InitPredict /\ [][NextPredict]_vars

\* ------------------------------------------------------------------------
\* The feature store on its own: agents log events while daily_features is
\* recomputed and written.
\* ------------------------------------------------------------------------

InitAggSpec ==
  /\ now = StartNow
  /\ ticks = 0
  /\ daily_features = <<>>
  /\ model_registry = <<>>
  /\ model_feature_importance = <<>>
  /\ model_predictions = <<>>
  /\ run = [r \in Runs |-> NewRun]
  /\ InitAgg

NextAgg ==
  \/ \E e \in EventCatalog : AppendEvent(e)
  \/ \E day \in AggDays : AggStart(day)
  \/ AggFetch
  \/ AggUpsert
  \/ AggReturn
  \/ \E row \in DirectRows : upsertDailyFeature(row)

SpecAgg == InitAggSpec /\ [][NextAgg]_vars

\* ------------------------------------------------------------------------
\* The loop body of aggregateAllUsersForDay run as one task per user, the
\* tasks side by side, over an event store nobody writes.
\* ------------------------------------------------------------------------

\* The event stores of at most MaxEvents events.
EventStores == {S \in SUBSET EventCatalog : Cardinality(S) <= MaxEvents}

\* A row of the day's key computed before the events were complete.
StaleTables == {<<>>, <<DailyFeature("u1", 1, FvSparse, NULL)>>}

\* Line 355 in the task of uid.
WorkerFetch(uid) ==
  /\ workers.task[uid].pc = "fetch"
  /\ \E events \in Orderings(UserDayEvents(system_events, uid, workers.day)) :
        workers' = [workers EXCEPT !.task[uid] =
                      [pc |-> "upsert",
                       row |-> DeriveDailyFeature(uid, workers.day, Arr(events))]]
  /\ UNCHANGED <<now, ticks, tables, run, fitCall, report, system_events, agg, lastUpsert, replaced, returns>>

\* Line 356 in the task of uid.
WorkerUpsert(uid) ==
  /\ workers.task[uid].pc = "upsert"
  /\ daily_features' = UpsertOnUserDay(daily_features, workers.task[uid].row)
  /\ workers' = [workers EXCEPT !.task[uid].pc = "done", !.order = Append(@, uid)]
  /\ UNCHANGED <<now, ticks, model_registry, model_feature_importance, model_predictions,
                 run, fitCall, report, system_events, agg, lastUpsert, replaced, returns>>

\* Lines 354-357 with the rows the fetches returned: the table the loop
\* leaves after the users k.. of unique, one after the other.
RECURSIVE SequentialLoop(_, _, _, _)
SequentialLoop(table, unique, rows, k) ==
  IF k > Len(unique) THEN table
  ELSE SequentialLoop(UpsertOnUserDay(table, rows[unique[k]]), unique, rows, k + 1)

InitWorkers ==
  /\ now = StartNow
  /\ ticks = 0
  /\ daily_features \in StaleTables
  /\ model_registry = <<>>
  /\ model_feature_importance = <<>>
  /\ model_predictions = <<>>
  /\ run = [r \in Runs |-> NewRun]
  /\ system_events \in EventStores
  /\ agg = IdleAgg
  /\ lastUpsert = {}
  /\ replaced = {}
  /\ returns = {}
  /\ fitCall = NoFitCall
  /\ report = NoReport
  /\ \E day \in AggDays :
        \E users \in Orderings({x \in system_events : InDay(x, day)}) :
          LET unique == UniqueUsers(Arr([k \in 1..Len(users) |-> users[k].user_id]))
          IN  workers = [ NoWorkers EXCEPT
                !.day = day, !.unique = unique, !.init = daily_features,
                !.task = [u \in Users |->
                            [pc |-> IF u \in Range(unique) THEN "fetch" ELSE "off",
                             row |-> <<>>]] ]

NextWorkers ==
  \/ \E uid \in Users : WorkerFetch(uid)
  \/ \E uid \in Users : WorkerUpsert(uid)

SpecWorkers == InitWorkers /\ [][NextWorkers]_vars

\* ------------------------------------------------------------------------
\* The importance step (lines 157-167) of runs that registered models with
\* coefficients of either sign, zero and fractions.
\* ------------------------------------------------------------------------

CoefValues == {R(0 - 2), Zero, Rat(1, 3)}

\* Coefficient vectors: three values repeated over the 12 features.
CoefVectors == {Arr([k \in 1..P |-> c[(k % 3) + 1]]) : c \in [1..3 -> CoefValues]}

\* The runs started a second apart.
StartedAt(r) == IF r = "run1" THEN StartNow - 1000 ELSE StartNow

InitImportance ==
  /\ now = StartNow
  /\ ticks = 0
  /\ daily_features = <<>>
  /\ model_feature_importance = <<>>
  /\ model_predictions = <<>>
  /\ \E beta \in [Runs -> CoefVectors] :
        /\ run = [r \in Runs |->
                   [NewRun EXCEPT !.pc = "insert_importance", !.beta = beta[r],
                                  !.model_version = nowVersion(StartedAt(r)),
                                  !.writes = <<[table |-> "model_registry", ok |-> TRUE]>>]]
        /\ model_registry = << RegistryRow(run["run1"], StartedAt("run1")),
                               RegistryRow(run["run2"], StartedAt("run2")) >>
  /\ InitAgg

NextImportance == \E r \in Runs : InsertImportance(r)

SpecImportance == InitImportance /\ [][NextImportance]_vars

\* ------------------------------------------------------------------------
\* ridgeFit called on its own, over small design matrices, singular Gram
\* matrices among them.
\* ------------------------------------------------------------------------

MaxRows == 2

FitColumns == {1, 2}

FitValues == {Zero, R(1), R(2)}

FitLambdas == {Zero, R(1)}

\* The design matrices of n rows and p columns.
Matrices(n, p) == {Arr([k \in 1..n |-> Arr(row[k])]) : row \in [1..n -> [1..p -> FitValues]]}

\* One-row design matrices of three columns: the pivot search of the second
\* column has two candidate rows and one row above them.
WideMatrices == Matrices(1, 3)

\* A well-conditioned call: y = 2x on four rows, no penalty.
RecoveryCall ==
  [X |-> <<<<R(1)>>, <<R(2)>>, <<R(3)>>, <<R(4)>>>>, y |-> <<R(2), R(4), R(6), R(8)>>,
   lambda |-> Zero]

\* 1e-9, a feature value whose square is below the pivot substitute, and
\* 1e-13, a penalty below it.
TINY_VALUE == <<1000, 1, 1>>
TINY_LAMBDA == <<1, 10, 1>>

\* Calls <<X, y, lambda>> at that scale: one column of TINY_VALUE with
\* lambda 0, and one column of zeros with lambda TINY_LAMBDA.
TinyCalls ==
  {<<Arr([k \in 1..n |-> <<c[1]>>]), Arr(y), c[2]>> :
      n \in 1..MaxRows, c \in {<<TINY_VALUE, Zero>>, <<Zero, TINY_LAMBDA>>},
      y \in UNION {[1..m -> FitValues] : m \in 1..MaxRows}}

\* ridgeFit(X, y, lambda): the call returns { beta, intercept } or throws.
CallRidgeFit ==
  /\ fitCall.pc = "call"
  /\ LET result == ridgeFit(fitCall.X, fitCall.y, fitCall.lambda)
         steps  == IF IsEmptyDesign(fitCall.X) THEN <<>>
                   ELSE EliminationSteps(XTX(fitCall.X, fitCall.lambda),
                                         XTy(fitCall.X, fitCall.y), 1)
     IN  fitCall' = [fitCall EXCEPT !.result = result, !.steps = steps,
                       !.pc = IF result = EMPTY_DESIGN_MATRIX THEN "raised" ELSE "returned"]
  /\ UNCHANGED <<now, ticks, tables, run, report, system_events, agg, lastUpsert, replaced,
                 returns, workers>>

InitFit ==
  /\ now = StartNow
  /\ ticks = 0
  /\ daily_features = <<>>
  /\ model_registry = <<>>
  /\ model_feature_importance = <<>>
  /\ model_predictions = <<>>
  /\ run = [r \in Runs |-> NewRun]
  /\ system_events = {}
  /\ agg = IdleAgg
  /\ lastUpsert = {}
  /\ replaced = {}
  /\ returns = {}
  /\ workers = NoWorkers
  /\ report = NoReport
  /\ \/ fitCall = [NoFitCall EXCEPT !.pc = "call", !.X = RecoveryCall.X, !.y = RecoveryCall.y,
                                     !.lambda = RecoveryCall.lambda]
     \/ \E n \in 0..MaxRows : \E p \in FitColumns :
          \E X \in Matrices(n, p) : \E y \in [1..n -> FitValues] : \E lambda \in FitLambdas :
            fitCall = [NoFitCall EXCEPT !.pc = "call", !.X = X, !.y = Arr(y), !.lambda = lambda]
     \/ \E c \in TinyCalls :
          /\ Len(c[1]) = Len(c[2])
          /\ fitCall = [NoFitCall EXCEPT !.pc = "call", !.X = c[1], !.y = c[2], !.lambda = c[3]]
     \/ \E X \in WideMatrices : \E y \in [1..1 -> FitValues] : \E lambda \in FitLambdas :
          fitCall = [NoFitCall EXCEPT !.pc = "call", !.X = X, !.y = Arr(y), !.lambda = lambda]

NextFit == CallRidgeFit

SpecFit == InitFit /\ [][NextFit]_vars

\* ------------------------------------------------------------------------
\* aggregateUserDay on its own, over event stores of every event type.
\* ------------------------------------------------------------------------

MaxDayEvents == 3

DeriveDays == {1, 2}

\* Events of the five types, on and around the bounds of day 1.
DayCatalog ==
  { App("a1", startOfDay(1), "Switched app", R(3)),
    App("a2", endOfDay(1), "Opened", R(4)),
    Notif("n1", startOfDay(1) + 1, "work", Rat(1, 2)),
    Notif("n2", endOfDay(1) - 1, "personal", NULL),
    Notif("n3", startOfDay(1) + 2, "", R(0)),
    Location("l1", startOfDay(1) + 3, "work", R(60)),
    Location("l2", startOfDay(1) + 4, "commute", R(29)),
    Location("l3", startOfDay(1) + 5, "commute", R(30)),
    Location("l4", startOfDay(2), "home", R(0)),
    MoodLog("m1", "u1", startOfDay(1) + 6, R(1)),
    MoodLog("m2", "u1", endOfDay(1), R(2)),
    MoodLog("m3", "u1", startOfDay(1) + 7, NULL),
    MoodLog("m4", "u2", startOfDay(1) - 1, R(5)),
    Activity("s1", startOfDay(1) + 8, "steps", R(2), NULL),
    Activity("s2", startOfDay(1) + 9, "steps", R(0), NULL),
    Activity("h1", startOfDay(1) + 10, "hrv", NULL, Rat(3, 2)),
    Activity("z1", startOfDay(1) + 11, "sleep_summary", R(27000), NULL),
    Activity("z2", startOfDay(1) + 12, "sleep_summary", R(17), NULL),
    App("a3", startOfDay(1) + 13, "Opened", NULL),
    Activity("i1", endOfDay(2), "idle", R(1), NULL) }

DayStores == {S \in SUBSET DayCatalog : Cardinality(S) <= MaxDayEvents}

\* aggregateUserDay(userId, day), lines 254-334: the select, in any order,
\* and the derivation; the history keeps what was returned.
aggregateUserDay(userId, day) ==
  /\ \E events \in Orderings(UserDayEvents(system_events, userId, day)) :
        returns' = returns \cup
          {[user_id |-> userId, day |-> day,
            row |-> DeriveDailyFeature(userId, day, Arr(events))]}
  /\ UNCHANGED <<now, ticks, tables, run, fitCall, report, system_events, agg, lastUpsert, replaced, workers>>

InitDerive ==
  /\ now = StartNow
  /\ ticks = 0
  /\ daily_features = <<>>
  /\ model_registry = <<>>
  /\ model_feature_importance = <<>>
  /\ model_predictions = <<>>
  /\ run = [r \in Runs |-> NewRun]
  /\ system_events \in DayStores
  /\ agg = IdleAgg
  /\ lastUpsert = {}
  /\ replaced = {}
  /\ returns = {}
  /\ workers = NoWorkers
  /\ fitCall = NoFitCall
  /\ report = NoReport

NextDerive == \E userId \in Users : \E day \in DeriveDays : aggregateUserDay(userId, day)

SpecDerive == InitDerive /\ [][NextDerive]_vars

\* ------------------------------------------------------------------------
\* Properties
\* ------------------------------------------------------------------------

Finished(r) == run[r].pc \in {"done", "failed"}

\* The run's registry insert was accepted by the store.
InsertedModel(r) == \E k \in DOMAIN run[r].writes :
  run[r].writes[k] = [table |-> "model_registry", ok |-> TRUE]

\* The registry entry carries the model the run fitted.
EntryOf(row, r) ==
  /\ row.features = FEATURE_NAMES
  /\ row.coefficients = run[r].beta
  /\ row.intercept = run[r].intercept
  /\ row.lambda = RIDGE_LAMBDA
  /\ row.train_mae = run[r].mae

\* Rows of daily_features with a label and all 12 features, counted from the
\* table itself.
CompleteCount(table) ==
  Cardinality({i \in DOMAIN table :
     /\ table[i].mood_label # NULL
     /\ \A f \in {FEATURE_NAMES[k] : k \in 1..12} : table[i][f] # NULL})

\* C1: two runs that each found at least 2 complete rows, met no store
\* failure other than on the version key and took their model_version in the
\* same UTC second have, once both finished, two distinct registry entries,
\* one per run.
C1_SameSecondRunsBothRegistered ==
  \A r1, r2 \in Runs :
    ( /\ r1 # r2
      /\ Finished(r1) /\ Finished(r2)
      /\ CompleteCount(run[r1].loadTable) >= 2
      /\ CompleteCount(run[r2].loadTable) >= 2
      /\ run[r1].stderr # <<"RepositoryError">>
      /\ run[r2].stderr # <<"RepositoryError">>
      /\ run[r1].model_version = run[r2].model_version )
    => \E i, j \in DOMAIN model_registry :
         i # j /\ EntryOf(model_registry[i], r1) /\ EntryOf(model_registry[j], r2)

\* C2: a registry entry, once inserted, stays in model_registry with its
\* features, coefficients, intercept, lambda and train_mae unchanged, and its
\* model_version names no second entry.
C2_RegistryEntryImmutable ==
  [][ \A i \in DOMAIN model_registry :
        LET old  == model_registry[i]
            same == {j \in DOMAIN model_registry' :
                       model_registry'[j].model_version = old.model_version}
        IN  /\ Cardinality(same) = 1
            /\ \A j \in same :
                 /\ model_registry'[j].features = old.features
                 /\ model_registry'[j].coefficients = old.coefficients
                 /\ model_registry'[j].intercept = old.intercept
                 /\ model_registry'[j].lambda = old.lambda
                 /\ model_registry'[j].train_mae = old.train_mae ]_vars

\* A run that fitted a different model under a version already in the
\* registry was refused.
C2_Witness ==
  \E r \in Runs : \E i \in DOMAIN model_registry :
    /\ run[r].stderr = <<"unique_violation">>
    /\ model_registry[i].model_version = run[r].model_version
    /\ model_registry[i].coefficients # run[r].beta

WRITE_ORDER == <<"model_registry", "model_feature_importance", "model_predictions">>

ImportanceRowsOf(v) == {i \in DOMAIN model_feature_importance :
                          model_feature_importance[i].model_version = v}

PredictionRowsOf(v) == {i \in DOMAIN model_predictions :
                          model_predictions[i].model_version = v}

\* C3: a run writes model_registry, model_feature_importance,
\* model_predictions in that order, each at most once; a failed write is the
\* run's last store call and ends the run; what earlier writes stored stays.
C3_WritesInOrderFailFast ==
  \A r \in Runs :
    LET w == run[r].writes
    IN  /\ Len(w) <= 3
        /\ \A k \in DOMAIN w : w[k].table = WRITE_ORDER[k]
        /\ \A k \in DOMAIN w : k < Len(w) => w[k].ok
        /\ (Len(w) > 0 /\ ~w[Len(w)].ok) => run[r].pc = "failed"
        /\ (Len(w) >= 1 /\ w[1].ok) =>
             \E i \in DOMAIN model_registry :
               /\ model_registry[i].model_version = run[r].model_version
               /\ EntryOf(model_registry[i], r)
        /\ (Len(w) >= 2 /\ w[2].ok) =>
             Cardinality(ImportanceRowsOf(run[r].model_version)) = 12
        /\ (Len(w) >= 3 /\ w[3].ok) =>
             Range(run[r].predRows) \subseteq Range(model_predictions)

\* A run whose third write failed, its first two writes still stored.
C3_Witness ==
  \E r \in Runs :
    /\ run[r].pc = "failed"
    /\ Len(run[r].writes) = 3
    /\ ~run[r].writes[3].ok
    /\ HasVersion(model_registry, run[r].model_version)
    /\ ImportanceRowsOf(run[r].model_version) # {}

\* The run stopped after its registry insert and before its importances
\* were stored.
Orphaned(r) ==
  \/ /\ run[r].pc = "failed"
     /\ run[r].writes = << [table |-> "model_registry", ok |-> TRUE],
                           [table |-> "model_feature_importance", ok |-> FALSE] >>
  \/ /\ run[r].pc = "crashed"
     /\ run[r].writes = << [table |-> "model_registry", ok |-> TRUE] >>

\* C4: a run stopped between its registry insert and its importance insert,
\* or failed by the latter, leaves its registry entry with no importance row
\* and no prediction row of that version; a failed run exits non-zero.
C4_OrphanedModel ==
  \A r \in Runs :
    Orphaned(r) =>
      /\ HasVersion(model_registry, run[r].model_version)
      /\ ImportanceRowsOf(run[r].model_version) = {}
      /\ PredictionRowsOf(run[r].model_version) = {}
      /\ run[r].pc = "failed" => run[r].exit = 1

\* The orphaned model, by a failed importance insert.
C4_Witness ==
  \E r \in Runs :
    /\ Orphaned(r) /\ run[r].pc = "failed"
    /\ HasVersion(model_registry, run[r].model_version)
    /\ ImportanceRowsOf(run[r].model_version) = {}

\* C5: a run that read fewer than 2 complete rows has failed with exit code
\* 1 and has attempted no write.
C5_TooFewRowsNoWrite ==
  \A r \in Runs :
    (run[r].pc # "load" /\ CompleteCount(run[r].loadTable) < 2) =>
      /\ run[r].pc = "failed"
      /\ run[r].exit = 1
      /\ run[r].writes = <<>>
      /\ run[r].stdout = <<>>

\* One complete row among the labeled ones.
C5_Witness ==
  \E r \in Runs :
    /\ run[r].pc = "failed"
    /\ CompleteCount(run[r].loadTable) = 1
    /\ run[r].stderr = <<"Not enough complete rows to train.">>
    /\ run[r].writes = <<>>

HasNullFeature(row) == \E k \in 1..12 : row[FEATURE_NAMES[k]] = NULL

\* intercept + sum of coef_i * feature_i over the features the row has
ScoreOfPresent(beta, intercept, row) ==
  RAdd(intercept,
       RSum(Arr([k \in 1..12 |->
          IF row[FEATURE_NAMES[k]] = NULL THEN Zero
          ELSE RMul(beta[k], row[FEATURE_NAMES[k]])])))

\* The rows the window select saw on or after the UTC date 14 days before
\* the instant since was taken.
WindowRows(r) ==
  {row \in Range(run[r].windowTable) :
     row.day * MS_PER_DAY + MS_PER_DAY > run[r].sinceNow - 14 * MS_PER_DAY}

PredictionsFor(r, row) ==
  {i \in DOMAIN model_predictions :
     /\ model_predictions[i].model_version = run[r].model_version
     /\ model_predictions[i].user_id = row.user_id
     /\ model_predictions[i].day = row.day}

\* C6: of a finished run, every window row with a null feature is absent
\* from the design matrix and has one prediction, whose y_pred is the
\* intercept plus the coefficient-weighted sum of the features present,
\* rounded to 2 decimals.
C6_NullFeatureZeroFilled ==
  \A r \in Runs :
    run[r].pc = "done" =>
      \A row \in WindowRows(r) :
        HasNullFeature(row) =>
          /\ row \notin Range(run[r].cleanRows)
          /\ Cardinality(PredictionsFor(r, row)) = 1
          /\ \A i \in PredictionsFor(r, row) :
               model_predictions[i].y_pred =
                 ToFixed(ScoreOfPresent(run[r].beta, run[r].intercept, row), 100)

\* A labeled window row with a null feature, scored by a finished run.
C6_Witness ==
  \E r \in Runs :
    /\ run[r].pc = "done"
    /\ \E row \in WindowRows(r) :
         /\ HasNullFeature(row)
         /\ row.mood_label # NULL
         /\ PredictionsFor(r, row) # {}

\* C8: a finished run has, under its model_version, one prediction for each
\* row the window select saw with day on or after the UTC date 14 days
\* before now, carrying the row's mood_label (null when null) as y_true, and
\* no prediction for any other user-day.
C8_WindowPredictions ==
  \A r \in Runs :
    run[r].pc = "done" =>
      /\ \A row \in WindowRows(r) :
           /\ Cardinality(PredictionsFor(r, row)) = 1
           /\ \A i \in PredictionsFor(r, row) :
                model_predictions[i].y_true = row.mood_label
      /\ \A i \in PredictionRowsOf(run[r].model_version) :
           \E row \in WindowRows(r) : i \in PredictionsFor(r, row)

\* A finished run that saw a row before the window and an unlabeled row
\* inside it.
C8_Witness ==
  \E r \in Runs :
    /\ run[r].pc = "done"
    /\ \E row \in Range(run[r].windowTable) : row \notin WindowRows(r)
    /\ \E row \in WindowRows(r) :
         row.mood_label = NULL /\ PredictionsFor(r, row) # {}

\* The run's prediction upsert was accepted by the store.
UpsertedPredictions(r) == \E k \in DOMAIN run[r].writes :
  run[r].writes[k] = [table |-> "model_predictions", ok |-> TRUE]

\* C7: no (model_version, user_id, day) has two rows in model_predictions,
\* and the prediction upsert of an execution that follows a completed one of
\* the same model leaves model_predictions as it was.
C7_PredictTwiceIdempotent ==
  /\ [](\A i, j \in DOMAIN model_predictions :
          SamePredictionKey(model_predictions[i], model_predictions[j]) => i = j)
  /\ [][ \A r \in Runs :
           ( /\ run[r].pc = "upsert_predictions"
             /\ run'[r].pc = "done"
             /\ \E q \in Runs \ {r} :
                  /\ UpsertedPredictions(q)
                  /\ run[q].model_version = run[r].model_version )
           => model_predictions' = model_predictions ]_vars

\* Both executions upserted their predictions.
C7_Witness ==
  /\ \A r \in Runs : run[r].pc = "done" /\ UpsertedPredictions(r)
  /\ model_predictions # <<>>

\* C9: under any interleaving of direct upsertDailyFeature calls and
\* aggregateAllUsersForDay runs, daily_features holds at most one row per
\* (user_id, day), and that row is the row last upserted for the key in all
\* 12 features and mood_label: nulls of the later row included, nothing
\* kept or accumulated from the row it replaced.
C9_UpsertOverwritesInPlace ==
  /\ \A i, j \in DOMAIN daily_features :
        SameUserDay(daily_features[i], daily_features[j]) => i = j
  /\ Range(daily_features) = lastUpsert

\* A stored row whose steps and mood_label are null where the row it
\* replaced had values.
C9_Witness ==
  \E row \in Range(daily_features) : \E old \in replaced :
    /\ SameUserDay(row, old)
    /\ old.steps # NULL /\ row.steps = NULL
    /\ old.mood_label # NULL /\ row.mood_label = NULL

\* C10: two aggregateUserDay calls for the same (userId, day) over the same
\* set of stored events return the same DailyFeature.
C10_AggregateUserDayIdempotent ==
  \A a, b \in returns : (a.user_id = b.user_id /\ a.day = b.day) => a.row = b.row

\* The users before position k of the loop in progress.
UsersBefore(k) == {agg.unique[j] : j \in 1..(k - 1)}

\* C11: when the event fetch or the upsert of the k-th user fails, the call
\* has made no store call for a later user, every call before the failed one
\* succeeded, the rows of users 1..k-1 are in daily_features, nothing more is
\* done but to answer, and the answer is status 500 with the error message
\* alone.
C11_FailFastNoReport ==
  /\ [](agg.pc = "failed" /\ agg.error # "select user_id" =>
         /\ agg.k \in 1..Len(agg.unique)
         /\ Len(agg.log) > 0
         /\ agg.log[Len(agg.log)] \in
               { [op |-> "fetch", user_id |-> agg.unique[agg.k], ok |-> FALSE],
                 [op |-> "upsert", user_id |-> agg.unique[agg.k], ok |-> FALSE] }
         /\ \A i \in 1..(Len(agg.log) - 1) : agg.log[i].ok
         /\ \A i \in DOMAIN agg.log :
               agg.log[i].user_id \in UsersBefore(agg.k) \cup {agg.unique[agg.k]}
         /\ \A u \in UsersBefore(agg.k) :
               \E row \in Range(daily_features) : row.user_id = u /\ row.day = agg.day
         /\ Response(agg) = [status |-> 500, body |-> [error |-> agg.error]])
  /\ [][agg.pc = "failed" /\ agg' # agg =>
          /\ agg' = [IdleAgg EXCEPT !.response = <<[status |-> 500, body |-> [error |-> agg.error]]>>]
          /\ daily_features' = daily_features]_vars

\* The second of two users failed after the first user's row was written.
C11_Witness ==
  /\ agg.pc = "failed"
  /\ agg.k = 2
  /\ Len(agg.unique) = 2
  /\ \E row \in Range(daily_features) : row.user_id = agg.unique[1] /\ row.day = agg.day

\* The users with an event in the day's window when the users were selected.
SeenUsers == {e.user_id : e \in {x \in agg.seen : InDay(x, agg.day)}}

\* The positions of the log at which uid was fetched, and upserted.
FetchesOf(uid) == {i \in DOMAIN agg.log : agg.log[i] = [op |-> "fetch", user_id |-> uid, ok |-> TRUE]}
UpsertsOf(uid) == {i \in DOMAIN agg.log : agg.log[i] = [op |-> "upsert", user_id |-> uid, ok |-> TRUE]}

\* C12: a call that succeeded fetched and upserted every user with an event
\* in the day's window (as the user select saw the store) exactly once and
\* no other user; the store calls alternate fetch, upsert user by user, so
\* that a user's upsert precedes the next user's fetch; and an upsert of the
\* loop leaves the rows of every other (user_id, day) as they were.
C12_EachUserOnceInTurn ==
  /\ [](agg.pc = "done" =>
         /\ \A u \in SeenUsers : Cardinality(FetchesOf(u)) = 1 /\ Cardinality(UpsertsOf(u)) = 1
         /\ \A i \in DOMAIN agg.log : agg.log[i].user_id \in SeenUsers /\ agg.log[i].ok
         /\ Len(agg.log) = 2 * Cardinality(SeenUsers))
  /\ [](\A i \in DOMAIN agg.log :
         /\ agg.log[i].op = (IF i % 2 = 1 THEN "fetch" ELSE "upsert")
         /\ agg.log[i].user_id = agg.unique[(i + 1) \div 2])
  /\ [][agg.pc = "upsert" /\ agg'.pc \in {"fetch", "done"} =>
          /\ agg.row.user_id \in SeenUsers
          /\ {x \in Range(daily_features') : ~SameUserDay(x, agg.row)}
               = {x \in Range(daily_features) : ~SameUserDay(x, agg.row)}]_vars

\* A call succeeded for two users, one of them with two events that day.
C12_Witness ==
  /\ agg.pc = "done"
  /\ Cardinality(SeenUsers) = 2
  /\ \E e1, e2 \in agg.seen :
        e1 # e2 /\ e1.user_id = e2.user_id /\ InDay(e1, agg.day) /\ InDay(e2, agg.day)
  /\ Cardinality(Range(daily_features)) = 2

\* Every per-user task has upserted its row.
AllWorkersDone == \A u \in Range(workers.unique) : workers.task[u].pc = "done"

\* The rows the tasks computed, by user.
WorkerRows == [u \in Users |-> workers.task[u].row]

\* C13: over an event store nobody writes, whatever the interleaving of the
\* per-user fetches and upserts, daily_features ends with the rows the
\* sequential loop leaves when it is given the same fetch results.
C13_ParallelSameAsSequential ==
  AllWorkersDone =>
    Range(daily_features)
      = Range(SequentialLoop(workers.init, workers.unique, WorkerRows, 1))

\* Two tasks finished in the order opposite to the loop's: the rows were
\* inserted in another order and are the same rows.
C13_Witness ==
  /\ AllWorkersDone
  /\ Len(workers.unique) = 2
  /\ workers.order = <<workers.unique[2], workers.unique[1]>>
  /\ daily_features # SequentialLoop(workers.init, workers.unique, WorkerRows, 1)
  /\ Cardinality(Range(daily_features)) = 2

\* The events a returned record was derived from.
EventsOf(x) == UserDayEvents(system_events, x.user_id, x.day)

OfType(events, type) == {e \in events : e.event_type = type}

\* The sum of duration_sec over a set of events, null counted as 0.
RECURSIVE SecondsOf(_)
SecondsOf(events) ==
  IF events = {} THEN Zero
  ELSE LET e == CHOOSE e \in events : TRUE
       IN  RAdd(IF e.duration_sec = NULL THEN Zero ELSE e.duration_sec,
                SecondsOf(events \ {e}))

\* The five counts of a set of events, computed without the collapse:
\* switching app sessions, work and personal notifications, location
\* changes, and commute minutes rounded half up.
CountsOf(events) ==
  [ app_switch_count |->
      Cardinality({e \in OfType(events, "app_usage") :
                     e.action_after \in {"Switched app", "switch", "SWITCH_TAB"}}),
    work_notif_count |->
      Cardinality({e \in OfType(events, "notification") : e.notification_sender_type = "work"}),
    personal_notif_count |->
      Cardinality({e \in OfType(events, "notification") : e.notification_sender_type = "personal"}),
    location_switches |->
      IF OfType(events, "location") = {} THEN 0
      ELSE Cardinality(OfType(events, "location")) - 1,
    commute_min |->
      LET sec == SecondsOf({e \in OfType(events, "location") : e.location_category = "commute"})
      IN  (2 * sec[1] + 60 * sec[2]) \div (120 * sec[2]) ]

\* C14: in every record aggregateUserDay returns, each of the five count
\* features is null when its count over the day's events is 0 and is that
\* count, nonzero, otherwise.
C14_ZeroCountIsNull ==
  \A x \in returns : \A f \in COUNT_FEATURES :
    LET count == CountsOf(EventsOf(x))[f]
    IN  /\ x.row[f] = NULL <=> count = 0
        /\ x.row[f] # NULL => x.row[f] = R(count) /\ count # 0

\* A day with one location event (no switch), a commute under half a
\* minute, an app session that switched nothing: counts of 0 over events of
\* the type, returned as null; and a day with a count returned as it is.
C14_Witness ==
  /\ \E x \in returns :
        /\ Cardinality(OfType(EventsOf(x), "location")) = 1
        /\ \E e \in EventsOf(x) : e.location_category = "commute"
        /\ x.row.location_switches = NULL
        /\ x.row.commute_min = NULL
  /\ \E x \in returns :
        /\ OfType(EventsOf(x), "app_usage") # {}
        /\ x.row.app_switch_count = NULL
  /\ \E x \in returns : x.row.work_notif_count = R(1)

\* C15: over mood_log events rated null or 1..5, the mood_label of every
\* record aggregateUserDay returns is null when the day has no mood_log
\* event and an integer in 1..5 when it has one.
C15_MoodLabelInRange ==
  \A x \in returns :
    IF OfType(EventsOf(x), "mood_log") = {}
      THEN x.row.mood_label = NULL
      ELSE x.row.mood_label \in {R(k) : k \in 1..5}

\* The events of a user whose millisecond timestamp falls on the calendar
\* day: from its midnight up to, and not including, the next midnight.
OnCalendarDay(userId, day) ==
  {e \in system_events :
     e.user_id = userId /\ day * 86400000 <= e.ts /\ e.ts < (day + 1) * 86400000}

\* The days in whose window the event is fetched.
WindowsOf(e) == {day \in 0..3 : e \in UserDayEvents(system_events, e.user_id, day)}

\* C16: every record aggregateUserDay(u, d) returns is derived from exactly
\* the events of u with d 00:00:00.000Z <= ts <= d 23:59:59.999Z, and every
\* stored event is in the window of exactly one day.
C16_WindowExactlyTheDay ==
  /\ \A x \in returns :
        /\ EventsOf(x) = OnCalendarDay(x.user_id, x.day)
        /\ \E events \in Orderings(OnCalendarDay(x.user_id, x.day)) :
              x.row = DeriveDailyFeature(x.user_id, x.day, Arr(events))
  /\ \A e \in system_events : Cardinality(WindowsOf(e)) = 1

\* A day returned from its first and its last millisecond, with another
\* event of the user at the next midnight left out.
C16_Witness ==
  \E x \in returns :
    /\ \E e \in EventsOf(x) : e.ts = x.day * 86400000
    /\ \E e \in EventsOf(x) : e.ts = (x.day + 1) * 86400000 - 1
    /\ \E e \in system_events : e.user_id = x.user_id /\ e.ts = (x.day + 1) * 86400000
    /\ x.row.session_avg_sec = R(4)
    /\ x.row.time_at_work_ratio = NULL

\* The run's write to the table was accepted.
WroteOk(r, table) == \E k \in DOMAIN run[r].writes :
  run[r].writes[k] = [table |-> table, ok |-> TRUE]

FeaturesOf(v) ==
  LET OfVersion(row) == row.model_version = v
      rows == SelectSeq(model_feature_importance, OfVersion)
  IN  Arr([k \in 1..Len(rows) |-> rows[k].feature])

\* C18: whatever the runs did (succeeded, failed at any step, collided on
\* the version), the importance rows of every model_version present in
\* model_feature_importance are 12, name the 12 model features in model
\* order, and so hold no (model_version, feature) twice.
C18_TwelveImportanceRows ==
  \A v \in {model_feature_importance[i].model_version : i \in DOMAIN model_feature_importance} :
    /\ FeaturesOf(v) = FEATURE_NAMES
    /\ Cardinality(ImportanceRowsOf(v)) = 12

\* Two runs collided on a version, and the run that registered it wrote its
\* importance rows.
C18_Witness ==
  /\ model_feature_importance # <<>>
  /\ \E r \in Runs : run[r].stderr = <<"unique_violation">>
  /\ \E r \in Runs : WroteOk(r, "model_feature_importance")

\* The importances stored for a version, in table order.
ImportancesOf(v) ==
  LET OfVersion(row) == row.model_version = v
      rows == SelectSeq(model_feature_importance, OfVersion)
  IN  Arr([k \in 1..Len(rows) |-> rows[k].importance])

\* C19: the importances a run stored are each at least 0 and at most 1;
\* they sum to 1 when a coefficient of the run is nonzero, and are all 0,
\* summing to 0, when every coefficient is 0.
C19_ImportancesNormalised ==
  \A r \in Runs : WroteOk(r, "model_feature_importance") =>
    LET imp == ImportancesOf(run[r].model_version)
    IN  /\ Len(imp) = Len(run[r].beta)
        /\ \A k \in DOMAIN imp : RLe(Zero, imp[k]) /\ RLe(imp[k], R(1))
        /\ IF \E k \in DOMAIN run[r].beta : run[r].beta[k] # Zero
             THEN RSum(imp) = R(1)
             ELSE RSum(imp) = Zero /\ \A k \in DOMAIN imp : imp[k] = Zero

\* One model with every coefficient 0 and one with negative and fractional
\* coefficients have both stored their importances.
C19_Witness ==
  \E r, q \in Runs :
    /\ WroteOk(r, "model_feature_importance") /\ WroteOk(q, "model_feature_importance")
    /\ \A k \in DOMAIN run[r].beta : run[r].beta[k] = Zero
    /\ \E k \in DOMAIN run[q].beta : RLt(run[q].beta[k], Zero)
    /\ \E k \in DOMAIN run[q].beta : run[q].beta[k] = Rat(1, 3)

\* A number: a fraction in lowest terms with a positive denominator.
IsNumber(x) ==
  /\ Len(x) \in {2, 3}
  /\ \A k \in DOMAIN x : x[k] \in Int
  /\ x[2] > 0
  /\ Gcd(Abs(x[1]), x[2]) = 1
  /\ Len(x) = 3 => x[3] # 0 /\ x[1] # 0

\* The Gram matrix of the call has two equal columns or a zero column and
\* lambda is 0: it is singular.
SingularCall ==
  /\ fitCall.lambda = Zero
  /\ Len(fitCall.X) >= 1
  /\ \/ \E j \in 1..Len(fitCall.X[1]) : \A k \in DOMAIN fitCall.X : fitCall.X[k][j] = Zero
     \/ /\ Len(fitCall.X[1]) = 2
        /\ \A k \in DOMAIN fitCall.X : fitCall.X[k][1] = fitCall.X[k][2]

\* C20: a call of ridgeFit raises the empty-design-matrix error exactly
\* when X has no row; with one row or more it returns a beta of as many
\* numbers as X has columns and an intercept, whether or not the Gram matrix
\* is singular.
C20_RaisesOnlyOnEmpty ==
  fitCall.pc \in {"raised", "returned"} =>
    /\ fitCall.pc = "raised" <=> Len(fitCall.X) = 0
    /\ fitCall.pc = "raised" => fitCall.result = [error |-> "Empty design matrix"]
    /\ fitCall.pc = "returned" =>
          /\ DOMAIN fitCall.result = {"beta", "intercept"}
          /\ Len(fitCall.result.beta) = Len(fitCall.X[1])
          /\ \A j \in DOMAIN fitCall.result.beta : IsNumber(fitCall.result.beta[j])
          /\ IsNumber(fitCall.result.intercept)

\* A call with two equal nonzero columns and lambda 0 returned.
C20_Witness ==
  /\ fitCall.pc = "returned"
  /\ SingularCall
  /\ Len(fitCall.X) = 2
  /\ Len(fitCall.X[1]) = 2
  /\ fitCall.X[1][1] = R(1) /\ fitCall.X[1][2] = R(1)
  /\ fitCall.X[2][1] = R(2)

\* C21: in every pass of the elimination loop of a call that returned, the
\* divisor piv has magnitude at least 1e-12, and it is 1e-12 whenever the
\* pivot read after the swaps has a magnitude below 1e-12, 0 or not.
C21_DivisorAtLeastEps ==
  fitCall.pc = "returned" =>
    \A k \in DOMAIN fitCall.steps :
      /\ RLe(PIVOT_EPS, RAbs(fitCall.steps[k].piv))
      /\ RLt(RAbs(fitCall.steps[k].pivot), PIVOT_EPS) => fitCall.steps[k].piv = PIVOT_EPS

\* C22: the call ridgeFit([[1],[2],[3],[4]], [2,4,6,8], 0) returns beta = [2]
\* and intercept = 0.
C22_ExactRecovery ==
  (/\ fitCall.pc \in {"raised", "returned"}
   /\ fitCall.X = RecoveryCall.X /\ fitCall.y = RecoveryCall.y
   /\ fitCall.lambda = RecoveryCall.lambda)
    => fitCall.result = [beta |-> <<R(2)>>, intercept |-> Zero]

\* That call returned, after one pass that divided by the pivot 30.
C22_Witness ==
  /\ fitCall.pc = "returned"
  /\ fitCall.X = <<<<R(1)>>, <<R(2)>>, <<R(3)>>, <<R(4)>>>>
  /\ fitCall.y = <<R(2), R(4), R(6), R(8)>>
  /\ fitCall.lambda = Zero
  /\ Len(fitCall.steps) = 1
  /\ fitCall.steps[1].piv = R(30)

\* The residual y_k - (X_k . beta + intercept) of row k under the result.
Residual(k) ==
  RSub(fitCall.y[k], RAdd(Dot(fitCall.X[k], fitCall.result.beta), fitCall.result.intercept))

\* C23: the intercept a call with n >= 1 rows returns is the mean over the
\* rows of y_k - X_k . beta for the beta it returns, and the residuals of the
\* fitted model sum to 0.
C23_InterceptIsMeanResidual ==
  (fitCall.pc \in {"raised", "returned"} /\ Len(fitCall.X) >= 1) =>
    /\ fitCall.pc = "returned"
    /\ LET n == Len(fitCall.X)
           r == Arr([k \in 1..n |-> RSub(fitCall.y[k], Dot(fitCall.X[k], fitCall.result.beta))])
       IN  /\ RMul(fitCall.result.intercept, R(n)) = RSum(r)
           /\ RSum(Arr([k \in 1..n |-> Residual(k)])) = Zero

\* A call with a penalty returned a nonzero intercept, a nonzero beta and
\* residuals that are not all 0.
C23_Witness ==
  /\ fitCall.pc = "returned"
  /\ fitCall.lambda = R(1)
  /\ Len(fitCall.X) = 2
  /\ fitCall.result.intercept # Zero
  /\ \E j \in DOMAIN fitCall.result.beta : fitCall.result.beta[j] # Zero
  /\ \E k \in DOMAIN fitCall.X : Residual(k) # Zero

\* C25: in each pass i the row max swapped with row i is the first of the
\* rows i..p that maximise |A[r][i]|, the rows above i are left out of the
\* search, and rows i and max change places in A and in b alike, every other
\* row and entry staying where it is.
C25_EarliestMaxPivot ==
  fitCall.pc = "returned" =>
    \A k \in DOMAIN fitCall.steps :
      LET st == fitCall.steps[k]
          p  == Len(st.A)
      IN  /\ st.i = k
          /\ st.max \in st.i..p
          /\ \A r \in st.i..p : RLe(RAbs(st.A[r][st.i]), RAbs(st.A[st.max][st.i]))
          /\ \A r \in st.i..(st.max - 1) : RLt(RAbs(st.A[r][st.i]), RAbs(st.A[st.max][st.i]))
          /\ \A r \in 1..p :
                /\ st.swappedA[r] = st.A[IF r = st.i THEN st.max ELSE IF r = st.max THEN st.i ELSE r]
                /\ st.swappedB[r] = st.b[IF r = st.i THEN st.max ELSE IF r = st.max THEN st.i ELSE r]
          /\ st.pivot = st.A[st.max][st.i]

\* A call of three columns whose first pass kept row 1 on a tie of all three
\* rows, whose second pass swapped rows 2 and 3 with their different
\* entries of b, and whose third pass kept row 3 while a row above it held a
\* larger entry in that column.
C25_Witness ==
  /\ fitCall.pc = "returned"
  /\ Len(fitCall.steps) = 3
  /\ LET s1 == fitCall.steps[1]
         s2 == fitCall.steps[2]
         s3 == fitCall.steps[3]
     IN  /\ s1.max = 1
         /\ \A r \in 2..3 : RAbs(s1.A[r][1]) = RAbs(s1.A[1][1])
         /\ s2.max = 3
         /\ s2.b[2] # s2.b[3]
         /\ s2.swappedB[2] = s2.b[3]
         /\ s3.max = 3
         /\ \E r \in 1..2 : RLt(RAbs(s3.A[3][3]), RAbs(s3.A[r][3]))

\* ------------------------------------------------------------------------
\* The report routes (GET /api/reports/feature-importance and the
\* predictions report) served while training runs go on over a table that
\* stays as it is: one request, its two selects interleaved with the store
\* calls of the runs.
\* ------------------------------------------------------------------------

REPORT_ROUTES == {"feature-importance", "predictions"}

\* Number(searchParams.get("days") || 14) of a request without the parameter.
REPORT_DAYS == 14

\* The order ascending: the oldest entry comes first.
LatestModel_Oldest(registry) ==
  {i \in DOMAIN registry :
     \A j \in DOMAIN registry : registry[i].created_at <= registry[j].created_at}

\* .order("created_at", { ascending: false }).limit(1): the rows that may come
\* first, any of those with the greatest created_at.
LatestModel(registry) ==
  {i \in DOMAIN registry :
     \A j \in DOMAIN registry : registry[j].created_at <= registry[i].created_at}

\* .order("importance", { ascending: false }); rows of equal importance are
\* left in table order.
RECURSIVE ByImportanceDesc(_)
ByImportanceDesc(rows) ==
  IF rows = <<>> THEN <<>>
  ELSE LET rest == ByImportanceDesc(Tail(rows))
           h    == Head(rows)
           k    == Cardinality({i \in DOMAIN rest : RLt(h.importance, rest[i].importance)})
       IN  SubSeq(rest, 1, k) \o <<h>> \o SubSeq(rest, k + 1, Len(rest))

\* .order("day"); rows of one day are left in table order.
RECURSIVE ByDay(_)
ByDay(rows) ==
  IF rows = <<>> THEN <<>>
  ELSE LET rest == ByDay(Tail(rows))
           h    == Head(rows)
           k    == Cardinality({i \in DOMAIN rest : rest[i].day < h.day})
       IN  SubSeq(rest, 1, k) \o <<h>> \o SubSeq(rest, k + 1, Len(rest))

\* select("feature, importance").eq("model_version", v).order(...)
ImportanceItems(table, v) ==
  LET Of(row) == row.model_version = v
      rows    == ByImportanceDesc(SelectSeq(table, Of))
  IN  Arr([k \in 1..Len(rows) |->
            [feature |-> rows[k].feature, importance |-> rows[k].importance]])

\* select("day, y_true, y_pred").eq("model_version", v).gte("day", since).order("day")
PredictionSeries(table, v, since) ==
  LET Of(row) == row.model_version = v /\ row.day >= since
      rows    == ByDay(SelectSeq(table, Of))
  IN  Arr([k \in 1..Len(rows) |->
            [day |-> rows[k].day, y_true |-> rows[k].y_true, y_pred |-> rows[k].y_pred]])

\* NextResponse.json({ items: [] }) and NextResponse.json({ series: [] })
EmptyBody(route) ==
  IF route = "feature-importance" THEN [items |-> <<>>] ELSE [series |-> <<>>]

Respond(rep, body) == [rep EXCEPT !.pc = "done", !.response = body]

\* The first select of a route: the latest model of the registry. With an
\* error, or no row for .single(), the route answers the empty body.
ReportLatest(route) ==
  /\ report.pc = "idle"
  /\ LET req == [report EXCEPT !.route = route, !.seen = model_registry,
                   !.since = IF route = "predictions"
                             THEN ISODate(now - REPORT_DAYS * MS_PER_DAY) ELSE 0]
     IN  \/ report' = Respond(req, EmptyBody(route))
         \/ \E i \in LatestModel(model_registry) :
              report' = [req EXCEPT !.pc = "read", !.reg = model_registry[i].model_version]
  /\ UNCHANGED <<now, ticks, tables, run, fitCall, system_events, agg, lastUpsert, replaced,
                 returns, workers>>

\* The second select of the route and its answer.
ReportRead ==
  /\ report.pc = "read"
  /\ \/ report' = Respond(report, EmptyBody(report.route))
     \/ report' = Respond(report,
          IF report.route = "feature-importance"
          THEN [modelVersion |-> report.reg,
                items |-> ImportanceItems(model_feature_importance, report.reg)]
          ELSE [modelVersion |-> report.reg,
                series |-> PredictionSeries(model_predictions, report.reg, report.since)])
  /\ UNCHANGED <<now, ticks, tables, run, fitCall, system_events, agg, lastUpsert, replaced,
                 returns, workers>>

\* The runs are invocations of one periodic job: a run starts when no other
\* run is under way.
OneAtATime(r) == \A q \in Runs \ {r} : run[q].pc \in {"load", "done", "failed", "crashed"}

InitReport ==
  /\ now = StartNow
  /\ ticks = 0
  /\ daily_features = SeedThree
  /\ model_registry = <<>>
  /\ model_feature_importance = <<>>
  /\ model_predictions = <<>>
  /\ run = [r \in Runs |-> NewRun]
  /\ InitAgg

NextReport ==
  \/ \E r \in Runs : OneAtATime(r) /\ Load(r)
  \/ \E r \in Runs : InsertRegistry(r)
  \/ \E r \in Runs : InsertImportance(r)
  \/ \E r \in Runs : ReadWindow(r)
  \/ \E r \in Runs : UpsertPredRows(r)
  \/ \E r \in Runs : Crash(r)
  \/ Tick
  \/ \E route \in REPORT_ROUTES : ReportLatest(route)
  \/ ReportRead

SpecReport == InitReport /\ [][NextReport]_vars

\* ------------------------------------------------------------------------
\* Training runs one after the other over a table that stays as it is, after
\* the call of the end-to-end example.
\* ------------------------------------------------------------------------

\* The call of the end-to-end example: three rows of one feature of value 1,
\* labels 3, 4, 5, lambda 1.
ExampleCall ==
  [NoFitCall EXCEPT !.pc = "call", !.X = <<<<R(1)>>, <<R(1)>>, <<R(1)>>>>,
                    !.y = <<R(3), R(4), R(5)>>, !.lambda = R(1)]

\* The example call has returned: it is made first, the runs follow.
ExampleDone == fitCall.pc = "returned"

InitTrain ==
  /\ now = StartNow
  /\ ticks = 0
  /\ daily_features \in TrainTables
  /\ model_registry = <<>>
  /\ model_feature_importance = <<>>
  /\ model_predictions = <<>>
  /\ run = [r \in Runs |-> NewRun]
  /\ system_events = {}
  /\ agg = IdleAgg
  /\ workers = NoWorkers
  /\ lastUpsert = {}
  /\ replaced = {}
  /\ returns = {}
  /\ fitCall = ExampleCall
  /\ report = NoReport

NextTrain ==
  \/ CallRidgeFit
  \/ \E r \in Runs : ExampleDone /\ OneAtATime(r) /\ Load(r)
  \/ \E r \in Runs : InsertRegistry(r)
  \/ \E r \in Runs : InsertImportance(r)
  \/ \E r \in Runs : ReadWindow(r)
  \/ \E r \in Runs : UpsertPredRows(r)
  \/ \E r \in Runs : Crash(r)
  \/ ExampleDone /\ Tick

SpecTrain == InitTrain /\ [][NextTrain]_vars

\* The score intercept + sum of coef_j * x_j a registry entry gives a row of
\* daily_features, a null feature counting as 0.
ScoreOf(entry, row) ==
  RAdd(entry.intercept,
       RSum(Arr([k \in 1..12 |->
         IF row[FEATURE_NAMES[k]] = NULL THEN Zero
         ELSE RMul(entry.coefficients[k], row[FEATURE_NAMES[k]])])))

\* The mean of |score - label| over the rows of a table that have a label and
\* all 12 features, under a registry entry.
InSampleError(entry, table) ==
  LET Complete(row) ==
        row.mood_label # NULL /\ \A k \in 1..12 : row[FEATURE_NAMES[k]] # NULL
      rows == SelectSeq(table, Complete)
  IN  RDiv(RSum(Arr([k \in 1..Len(rows) |->
              RAbs(RSub(ScoreOf(entry, rows[k]), rows[k].mood_label))])), R(Len(rows)))

\* The registry entries of the run's model_version.
EntriesOf(r) ==
  {i \in DOMAIN model_registry : model_registry[i].model_version = run[r].model_version}

\* The example call returned beta = [3] and intercept = 1, and the mean of
\* |intercept + beta * x_k - y_k| over its three rows is 2/3.
ExampleFit ==
  /\ fitCall.pc = "returned"
  /\ fitCall.result = [beta |-> <<R(3)>>, intercept |-> R(1)]
  /\ RDiv(RSum(Arr([k \in 1..3 |->
        RAbs(RSub(RAdd(fitCall.result.intercept,
                       RMul(fitCall.result.beta[1], fitCall.X[k][1])), fitCall.y[k]))])),
          R(3)) = Rat(2, 3)

\* C24 as stated: the train_mae of the registry entry a run inserted and the
\* train_mae of the object the run printed on success both equal the mean of
\* |intercept + sum coef_j * x_ij - y_i| over the complete rows the run
\* loaded, and the example call gives beta = 3, intercept = 1, error 2/3.
C24_StoredAndPrintedMae ==
  /\ fitCall.pc \in {"raised", "returned"} => ExampleFit
  /\ \A r \in Runs :
       /\ InsertedModel(r) =>
            \A i \in EntriesOf(r) :
              model_registry[i].train_mae = InSampleError(model_registry[i], run[r].loadTable)
       /\ run[r].pc = "done" =>
            \A i \in EntriesOf(r) :
              run[r].stdout[Len(run[r].stdout)].train_mae
                = InSampleError(model_registry[i], run[r].loadTable)

\* C24, amended: the stored train_mae is that mean, and the printed one is
\* the mean rounded to three decimals, a multiple of 1/1000 within 1/2000 of
\* it; the run's model has one registry entry, and the example call gives
\* beta = 3, intercept = 1, error 2/3.
C24_StoredExactPrintedRounded ==
  /\ fitCall.pc \in {"raised", "returned"} => ExampleFit
  /\ \A r \in Runs :
       /\ InsertedModel(r) =>
            /\ Cardinality(EntriesOf(r)) = 1
            /\ \A i \in EntriesOf(r) :
                 model_registry[i].train_mae = InSampleError(model_registry[i], run[r].loadTable)
       /\ run[r].pc = "done" =>
            /\ InsertedModel(r)
            /\ Len(run[r].stdout) = 1
            /\ \A i \in EntriesOf(r) :
                 LET printed == run[r].stdout[1].train_mae
                     mean    == InSampleError(model_registry[i], run[r].loadTable)
                 IN  /\ 1000 % printed[2] = 0
                     /\ RLe(RAbs(RSub(printed, mean)), Rat(1, 2000))
                     /\ run[r].stdout[1].train_rows = CompleteCount(run[r].loadTable)

\* A run over the three rows of labels 3, 4, 5 stored 2/3 and printed 0.667,
\* and the example call has returned.
C24_Witness ==
  /\ ExampleFit
  /\ \E r \in Runs :
       /\ run[r].pc = "done"
       /\ run[r].loadTable = SeedThree
       /\ run[r].stdout[1].train_mae = Rat(667, 1000)
       /\ \E i \in EntriesOf(r) : model_registry[i].train_mae = Rat(2, 3)

\* The importance rows a registry entry's coefficients give: |coef_k| over
\* the sum of the magnitudes, or over 1 when that sum is 0.
DerivedImportances(entry) ==
  LET sum == RSum(Arr([k \in 1..12 |-> RAbs(entry.coefficients[k])]))
  IN  Arr([k \in 1..12 |->
        [ model_version |-> entry.model_version, feature |-> FEATURE_NAMES[k],
          importance |-> IF sum = Zero THEN Zero
                         ELSE RDiv(RAbs(entry.coefficients[k]), sum) ]])

\* The prediction row a registry entry gives for a row of daily_features.
DerivedPrediction(entry, row) ==
  [ model_version |-> entry.model_version, user_id |-> row.user_id, day |-> row.day,
    y_true |-> row.mood_label, y_pred |-> ToFixed(ScoreOf(entry, row), 100),
    proba_at_risk |-> NULL ]

\* C26: every row of model_feature_importance and of model_predictions has
\* its model_version in model_registry, under one entry only; the importance
\* rows of a version are none or the 12 its entry's coefficients give, and
\* each prediction row of a version is what its entry's coefficients and
\* intercept give for a row of daily_features that the run which inserted
\* the entry read, runs that failed or were killed at any step included.
C26_ReferentialIntegrity ==
  /\ \A i \in DOMAIN model_feature_importance :
       \E j \in DOMAIN model_registry :
         model_registry[j].model_version = model_feature_importance[i].model_version
  /\ \A i \in DOMAIN model_predictions :
       \E j \in DOMAIN model_registry :
         model_registry[j].model_version = model_predictions[i].model_version
  /\ \A j, k \in DOMAIN model_registry :
       model_registry[j].model_version = model_registry[k].model_version => j = k
  /\ \A j \in DOMAIN model_registry :
       LET entry == model_registry[j]
           Of(row) == row.model_version = entry.model_version
       IN  /\ SelectSeq(model_feature_importance, Of) \in {<<>>, DerivedImportances(entry)}
           /\ \A i \in PredictionRowsOf(entry.model_version) :
                \E r \in Runs : \E d \in Range(run[r].windowTable) :
                  /\ InsertedModel(r) /\ run[r].model_version = entry.model_version
                  /\ model_predictions[i] = DerivedPrediction(entry, d)

\* One run failed at its importance insert and left its registry entry
\* alone; the run after it, a second later, stored its 12 importance rows
\* and its predictions.
C26_Witness ==
  \E r, q \in Runs :
    /\ run[r].pc = "failed" /\ InsertedModel(r)
    /\ ~WroteOk(r, "model_feature_importance")
    /\ ImportanceRowsOf(run[r].model_version) = {}
    /\ run[q].pc = "done" /\ UpsertedPredictions(q)
    /\ Cardinality(ImportanceRowsOf(run[q].model_version)) = 12
    /\ PredictionRowsOf(run[q].model_version) # {}
    /\ Len(model_registry) = 2

\* The request answered with a modelVersion.
Reported == report.pc = "done" /\ "modelVersion" \in DOMAIN report.response

\* The reported version was a latest entry of the registry as the request
\* read it.
ReportedLatest ==
  \E i \in DOMAIN report.seen :
    /\ report.seen[i].model_version = report.response.modelVersion
    /\ \A j \in DOMAIN report.seen : report.seen[j].created_at <= report.seen[i].created_at

\* The registry entry of the reported version.
ReportedEntry ==
  model_registry[CHOOSE j \in DOMAIN model_registry :
                   model_registry[j].model_version = report.response.modelVersion]

\* The items are the 12 importances of the reported model, largest first.
CompleteItems ==
  LET items == report.response.items
      all   == DerivedImportances(ReportedEntry)
  IN  /\ Len(items) = 12
      /\ \A k \in 1..12 : \E n \in 1..12 :
            items[n] = [feature |-> all[k].feature, importance |-> all[k].importance]
      /\ \A n \in 1..11 : RLe(items[n + 1].importance, items[n].importance)

\* How often x occurs in a sequence.
Count(seq, x) == Cardinality({i \in DOMAIN seq : seq[i] = x})

\* The series is the predictions stored for the reported model on or after
\* the first day of the request, one point for each, in order of day.
WindowSeries ==
  LET series == report.response.series
      stored == {i \in PredictionRowsOf(report.response.modelVersion) :
                   model_predictions[i].day >= report.since}
      Point(i) == [day |-> model_predictions[i].day, y_true |-> model_predictions[i].y_true,
                   y_pred |-> model_predictions[i].y_pred]
  IN  /\ Len(series) = Cardinality(stored)
      /\ \A i \in stored : Count(series, Point(i)) = Cardinality({j \in stored : Point(j) = Point(i)})
      /\ \A n \in 1..(Len(series) - 1) : series[n].day <= series[n + 1].day

Tagged(x, tag) == {e \in OfType(EventsOf(x), "activity") : e.action_after = tag}

\* C28: the record aggregateUserDay returns does not depend on the order in
\* which the store returned the day's events: whatever permutation of one
\* event set two calls for the same user and day were given, also of a set
\* with more than one activity event tagged sleep_summary, steps or hrv, the
\* 12 features and mood_label of the two records are the same.
C28_OrderIndependent ==
  \A a, b \in returns :
    (a.user_id = b.user_id /\ a.day = b.day)
      => /\ \A k \in 1..P : a.row[FEATURE_NAMES[k]] = b.row[FEATURE_NAMES[k]]
         /\ a.row.mood_label = b.row.mood_label

\* ------------------------------------------------------------------------
\* Zero and null in the features that are not counts
\* ------------------------------------------------------------------------

\* A feature read from a tagged activity event: null, or the nonzero value
\* of one of the day's events with the tag.
NullOrTaggedValue(x, f, tag, field) ==
  /\ x.row[f] = NULL =>
       \/ Tagged(x, tag) = {}
       \/ \E e \in Tagged(x, tag) : e[field] \in {NULL, Zero}
  /\ x.row[f] # NULL =>
       /\ x.row[f] # Zero
       /\ \E e \in Tagged(x, tag) : e[field] = x.row[f]

\* The day's seconds that idle_ratio divides by: app sessions plus idle
\* periods.
SessionSeconds(x) ==
  RAdd(SecondsOf(OfType(EventsOf(x), "app_usage")), SecondsOf(Tagged(x, "idle")))

\* The four averages and ratios are null exactly when nothing was computed:
\* no event to average over, or a denominator that is not positive; a
\* computed 0 is returned as 0.
KeepsComputedZero(x) ==
  /\ x.row.session_avg_sec = NULL <=> OfType(EventsOf(x), "app_usage") = {}
  /\ x.row.avg_notif_sentiment = NULL <=> OfType(EventsOf(x), "notification") = {}
  /\ x.row.idle_ratio = NULL <=> ~RLt(Zero, SessionSeconds(x))
  /\ x.row.time_at_work_ratio = NULL <=> ~RLt(Zero, SecondsOf(OfType(EventsOf(x), "location")))

\* hours is seconds / 3600 rounded to two decimals.
IsHoursOf(hours, seconds) ==
  /\ RMul(hours, R(100))[2] = 1
  /\ RLe(RAbs(RSub(hours, RDiv(seconds, R(3600)))), Rat(1, 200))

\* C29 as stated: in every record aggregateUserDay returns, steps, hrv and
\* hours_slept are each null or nonzero, a first matching activity event
\* whose value is 0 or null giving null, whereas session_avg_sec,
\* avg_notif_sentiment, idle_ratio and time_at_work_ratio keep a computed 0
\* and are null only when the day has no event of their type (the two
\* averages) or their denominator is not positive (the two ratios).
C29_NullOrNonzero ==
  \A x \in returns :
    /\ NullOrTaggedValue(x, "steps", "steps", "duration_sec")
    /\ NullOrTaggedValue(x, "hrv", "hrv", "message_sentiment")
    /\ x.row.hours_slept # Zero
    /\ KeepsComputedZero(x)

\* C29, amended: steps and hrv are each null or nonzero; hours_slept is null
\* or the nonzero duration of a sleep_summary event of the day, in hours
\* rounded to two decimals, which is 0 for a duration under 18 seconds; the
\* four averages and ratios keep a computed 0 and are null only when nothing
\* was computed.
C29_NullOrRoundedHours ==
  \A x \in returns :
    /\ NullOrTaggedValue(x, "steps", "steps", "duration_sec")
    /\ NullOrTaggedValue(x, "hrv", "hrv", "message_sentiment")
    /\ x.row.hours_slept = NULL =>
         \/ Tagged(x, "sleep_summary") = {}
         \/ \E e \in Tagged(x, "sleep_summary") : e.duration_sec \in {NULL, Zero}
    /\ x.row.hours_slept # NULL =>
         \E e \in Tagged(x, "sleep_summary") :
           /\ e.duration_sec \notin {NULL, Zero}
           /\ IsHoursOf(x.row.hours_slept, e.duration_sec)
    /\ KeepsComputedZero(x)

\* A day of a 17-second sleep summary, a steps event of value 0 and an app
\* session without a duration: hours_slept and session_avg_sec are returned
\* as 0, steps and idle_ratio as null.
C29_Witness ==
  \E x \in returns :
    /\ \E e \in Tagged(x, "sleep_summary") : e.duration_sec = R(17)
    /\ x.row.hours_slept = Zero
    /\ \E e \in Tagged(x, "steps") : e.duration_sec = Zero
    /\ x.row.steps = NULL
    /\ OfType(EventsOf(x), "app_usage") # {}
    /\ x.row.session_avg_sec = Zero
    /\ x.row.idle_ratio = NULL

\* ------------------------------------------------------------------------
\* aggregateAllUsersForDay and one training run over the stores of full
\* days; the event store is read in one of two scan orders.
\* ------------------------------------------------------------------------

PipelineRun == "run1"

\* Lines 345-353, the user_id select returning its rows in a scan order.
AggStartScan(day) ==
  /\ agg.pc = "idle"
  /\ \/ \E users \in ScanOrders({x \in system_events : InDay(x, day)}) :
          LET unique == UniqueUsers(Arr([k \in 1..Len(users) |-> users[k].user_id]))
          IN  agg' = [IdleAgg EXCEPT !.pc = IF Len(unique) = 0 THEN "done" ELSE "fetch",
                                     !.day = day, !.unique = unique, !.k = 1,
                                     !.seen = system_events]
     \/ agg' = Rejected([IdleAgg EXCEPT !.day = day], "select user_id")
  /\ UNCHANGED <<now, ticks, tables, run, fitCall, report, system_events, lastUpsert, replaced, returns, workers>>

\* Line 355, the events select returning its rows in a scan order.
AggFetchScan ==
  /\ agg.pc = "fetch"
  /\ LET uid == agg.unique[agg.k]
     IN  \/ \E events \in ScanOrders(UserDayEvents(system_events, uid, agg.day)) :
              LET row == DeriveDailyFeature(uid, agg.day, events)
              IN  /\ agg' = [Called(agg, "fetch", uid, TRUE) EXCEPT !.pc = "upsert", !.row = row]
                  /\ returns' = returns \cup {[user_id |-> uid, day |-> agg.day, row |-> row]}
         \/ /\ agg' = Rejected(Called(agg, "fetch", uid, FALSE), "select events")
            /\ UNCHANGED returns
  /\ UNCHANGED <<now, ticks, tables, run, fitCall, report, system_events, lastUpsert, replaced, workers>>

InitPipeline ==
  /\ now = StartNow
  /\ ticks = 0
  /\ daily_features = <<>>
  /\ model_registry = <<>>
  /\ model_feature_importance = <<>>
  /\ model_predictions = <<>>
  /\ run = [r \in Runs |-> NewRun]
  /\ system_events \in PipelineStores
  /\ agg = IdleAgg
  /\ lastUpsert = {}
  /\ replaced = {}
  /\ returns = {}
  /\ workers = NoWorkers
  /\ fitCall = NoFitCall
  /\ report = NoReport

\* The aggregations come first; the run starts between two of them and
\* none starts after it.
Untrained == run[PipelineRun].pc = "load"

NextPipeline ==
  \/ \E day \in AggDays : Untrained /\ AggStartScan(day)
  \/ Untrained /\ AggFetchScan
  \/ Untrained /\ AggUpsert
  \/ Untrained /\ AggReturn
  \/ agg.pc = "idle" /\ Load(PipelineRun)
  \/ InsertRegistry(PipelineRun)
  \/ InsertImportance(PipelineRun)
  \/ ReadWindow(PipelineRun)
  \/ UpsertPredRows(PipelineRun)
  \/ Crash(PipelineRun)

SpecPipeline == InitPipeline /\ [][NextPipeline]_vars

\* The count features of a returned record whose count over the day's
\* events is 0.
ZeroCounts(x) == {f \in COUNT_FEATURES : CountsOf(EventsOf(x))[f] = 0}

\* intercept + sum of coef_k * x_k over the features of the row, those in
\* zeros and the null ones taken as 0.
ScoreWithZeros(entry, row, zeros) ==
  RAdd(entry.intercept,
       RSum(Arr([k \in 1..P |->
          IF FEATURE_NAMES[k] \in zeros \/ row[FEATURE_NAMES[k]] = NULL THEN Zero
          ELSE RMul(entry.coefficients[k], row[FEATURE_NAMES[k]])])))

\* The training rows and the predictions of a user-day.
TrainedOn(x) ==
  {row \in UNION {Range(run[r].cleanRows) : r \in Runs} :
     row.user_id = x.user_id /\ row.day = x.day}

ScoresOf(x) ==
  {p \in Range(model_predictions) : p.user_id = x.user_id /\ p.day = x.day}

\* C30: a row aggregateAllUsersForDay wrote is among the training rows only
\* if its user-day had a switching app_usage event, a work notification, a
\* personal notification, two location events and a commute that rounds to
\* at least 1 minute; a user-day with a count of 0 among the five is never
\* among the training rows, and a run that finds it in the prediction
\* window scores it, with each such feature taken as 0.
C30_TrainedOnlyOnFullDays ==
  /\ \A x \in returns :
       TrainedOn(x) # {} =>
         /\ CountsOf(EventsOf(x)).app_switch_count >= 1
         /\ CountsOf(EventsOf(x)).work_notif_count >= 1
         /\ CountsOf(EventsOf(x)).personal_notif_count >= 1
         /\ Cardinality(OfType(EventsOf(x), "location")) >= 2
         /\ CountsOf(EventsOf(x)).commute_min >= 1
  /\ \A r \in Runs : \A row \in Range(run[r].cleanRows) :
       \E x \in returns : x.row = row
  /\ \A x \in returns :
       ZeroCounts(x) # {} =>
         /\ TrainedOn(x) = {}
         /\ \A p \in ScoresOf(x) : \A entry \in Range(model_registry) :
              entry.model_version = p.model_version =>
                p.y_pred = ToFixed(ScoreWithZeros(entry, x.row, ZeroCounts(x)), 100)
         /\ \A r \in Runs :
              ( /\ run[r].pc = "done"
                /\ x.row \in Range(run[r].windowTable)
                /\ x.day >= run[r].since )
              => \E p \in ScoresOf(x) : p.model_version = run[r].model_version

\* A run trained on two days aggregateAllUsersForDay wrote and scored a
\* third, whose only location event gave location_switches a count of 0,
\* with a model that weighs location_switches.
C30_Witness ==
  \E r \in Runs : \E x \in returns :
    /\ run[r].pc = "done"
    /\ Len(run[r].cleanRows) = 2
    /\ "location_switches" \in ZeroCounts(x)
    /\ x.row.location_switches = NULL
    /\ run[r].beta[11] # Zero
    /\ \E p \in ScoresOf(x) : p.model_version = run[r].model_version

====
